---- MODULE Spec2Model ----
(***************************************************************************)
(* Verification model of the scheduled fan-out and rate-limited            *)
(* aggregation engine of the market-data notification bot:                 *)
(*   - SchedulerService   (src/src/services/scheduler.ts)                  *)
(*   - rate limiters      (src/unnamed/part_001, src/src/services/         *)
(*                         coingecko.ts)                                   *)
(*   - broadcast          (src/src/types/crypto.ts)                        *)
(*   - alert evaluator    (scheduler.ts checkPriceAlerts)                  *)
(*   - price comparison   (src/unnamed/part_001 comparePrices)             *)
(* Each component has its own specification over the shared variables.     *)
(***************************************************************************)
EXTENDS Integers, Sequences, FiniteSets, TLC

VARIABLES
    \* ---- SchedulerService ----
    tasks,          \* Map<string, cron.ScheduledTask>: job id -> timer handle (0 = absent)
    timers,         \* cron timers ever created: handle -> [task, status]
    runningTasks,   \* Set<string> of job ids
    error_count,    \* ScheduledTask.error_count, per task object
    inFlight,       \* executions awaiting task.handler(), per task object
    lastResult,     \* TaskResult returned by the last completed executeTask
    escaped,        \* TRUE once a handler error left executeTask towards the cron callback
    consecFails,    \* history: failures of a task since its last success, counted up to max_retries
    autoPaused      \* history per task: "paused" since executeTask called pauseTask for it,
                    \* "reregistered" once scheduleTask registered it again, "no" after resumeTask

VARIABLES
    pauseCalls      \* history per task: calls of pauseTask made by executeTask's catch block

VARIABLES
    \* ---- rate limiters of the source clients ----
    requestCounts,  \* requests counted in the current window, per source
    lastResets,     \* start of the current window, per source
    now,            \* Date.now(), in units of half a request window
    callerPc,       \* per fetch: "idle", "sleeping" (in sleep(waitTime)), "inc" (check done, increment pending)
    callerSrc,      \* the source the fetch is acquiring a slot of ("none" when idle)
    wakeAt,         \* when the fetch's sleep timer is due
    suspended,      \* the fetch's current acquire went through sleep
    winStart,       \* history: start of the window the last admission fell into, per source
    winAdmits,      \* history: requests admitted in that window
    winImmediate    \* history: of those, the ones admitted without suspending

VARIABLES
    \* ---- store tables and a push job (pushTrendingCoins -> broadcastToSubscribers) ----
    subscriptions,  \* subscriptions table for the broadcast category: user -> "active" | "paused" | "other"
    push_history,   \* push_history table: the PushRecords in insertion order
    hPc,            \* position of the job's handler (see the Push actions)
    bList,          \* the subscriptions loaded by broadcastToSubscribers
    bIdx,           \* index of the subscription the for-loop is at
    bStart,         \* history: number of PushRecords when the broadcast began
    bErr,           \* message of the error caught by the loop body's catch
    sendLog,        \* history: outcome of every bot.sendMessage of this broadcast, in order
    storeFailed,    \* history: a store operation failed during this broadcast
    recipients,     \* history: the users bot.sendMessage was called for in this broadcast, in order
    loadedFrom,     \* history: the subscriptions table as it was when the broadcast loaded its list
    subChanges      \* history: number of subscription changes made by users so far

VARIABLES
    \* ---- price_alerts table and runs of checkPriceAlerts ----
    price_alerts,   \* per alert id: [symbol, condition, target_price, is_active, triggered]
    aPc,            \* per run: "idle", "fetch", "eval", "send", "trigger", "sleep"
    alerts,         \* per run: the rows returned by getActiveAlerts (alert ids, table order)
    aGroup,         \* per run: index of the symbol group the outer loop is at
    aIdx,           \* per run: index of the alert the inner loop is at
    currentPrice,   \* per run: the price fetched for the current group
    notified,       \* history: alert messages delivered, per alert
    triggerCount,   \* history: successful triggerAlert updates, per alert
    aSkips          \* history per run: symbol groups the run has skipped so far

VARIABLES
    \* ---- pushPriceComparison and PriceComparisonService.comparePrices ----
    cPc,            \* "idle", "fetching", "compared", "broadcast", "sleep"
    cSym,           \* index of the symbol the job's loop is at
    fetchRes,       \* per exchange: the settled value of its price fetch, or pending
    comparison,     \* the value comparePrices returned for the current symbol
    cSkipped,       \* history: symbols the job skipped because the comparison was absent
    cSent           \* history: broadcasts made, per symbol

VARIABLES
    \* ---- one fetch per source client: get<Exchange>Price / get<Exchange>FundingRate,
    \*      CoinGeckoService.getSimplePrices / getTrendingCoins ----
    qPc,            \* per client: "idle", "request" (inside retry), "done"
    qOp,            \* per client: the operation the fetch belongs to
    qAttempt,       \* per client: the attempt retry is at
    qErr,           \* per client: class of the last error the fetch saw
    qOut            \* per client: how the operation settled: "none", "value", "null", "raised"

VARIABLES
    \* ---- DatabaseService: the tables as sets of rows, with their key and owner columns ----
    users,              \* users table: the user_id of every row
    subscription_rows,  \* subscriptions table: [id, user_id, subscription_type, is_active]
    alert_rows,         \* price_alerts table: [id, user_id]
    history_rows,       \* push_history table: [id, user_id, timestamp], timestamp as ISO text
    next_id,            \* the next row id (AUTOINCREMENT / generateId)
    clock,              \* Date.now() of the store's host, in half days
    lastOp              \* history: the last store operation, its arguments and what it returned

VARIABLES
    \* ---- the /subscribe and /unsubscribe commands of one user ----
    max_subscriptions,  \* users.max_subscriptions of the user's row (0 while there is no row)
    mPc,                \* per command: "idle", "gotUser", "gotSubs", "reply"
    mKind,              \* per command: "subscribe", "unsubscribe" ("none" when idle)
    mType,              \* per command: args[0], the subscription type asked for
    mUser,              \* per command: user.max_subscriptions as getUser returned it (0 = no user)
    mSubs,              \* per command: the subscription types getUserSubscriptions returned
    mCount              \* history: commands received so far

VARIABLES
    \* ---- PriceComparisonService.getAllFundingRates for one symbol ----
    rPc,                \* "idle", "fetching" (awaiting Promise.allSettled), "returned"
    rateRes,            \* per exchange: the settled result of its funding rate fetch, or pending
    fundingRates        \* the array getAllFundingRates returned

VARIABLES
    \* ---- one fetch per caller: retry(() => client.get(...), n, delay) ----
    tryNo,              \* per caller: attempts of its fetch begun so far (0 = no fetch)
    trySrc,             \* per caller: the source its fetch is on ("none" without a fetch)
    reqOut              \* per caller: the attempt's request is issued and not yet settled

VARIABLES
    \* ---- the process ----
    exited              \* process.exit() was called

schedVars == <<tasks, timers, runningTasks, error_count, inFlight, lastResult,
               escaped, consecFails, autoPaused, pauseCalls>>

rateVars == <<requestCounts, lastResets, now, callerPc, callerSrc, wakeAt, suspended,
              winStart, winAdmits, winImmediate>>

liveVars == <<recipients, loadedFrom, subChanges>>

pushVars == <<subscriptions, push_history, hPc, bList, bIdx, bStart, bErr, sendLog, storeFailed,
              liveVars>>

alertVars == <<price_alerts, aPc, alerts, aGroup, aIdx, currentPrice, notified, triggerCount,
               aSkips>>

cmpVars == <<cPc, cSym, fetchRes, comparison, cSkipped, cSent>>

fetchVars == <<qPc, qOp, qAttempt, qErr, qOut>>

storeVars == <<users, subscription_rows, alert_rows, history_rows, next_id, clock, lastOp>>

cmdVars == <<max_subscriptions, mPc, mKind, mType, mUser, mSubs, mCount>>

fundVars == <<rPc, rateRes, fundingRates>>

tryVars == <<tryNo, trySrc, reqOut>>

procVars == <<exited>>

vars == <<schedVars, rateVars, pushVars, alertVars, cmpVars, fetchVars, storeVars, cmdVars,
          fundVars, tryVars, procVars>>

nonSchedProcVars == <<rateVars, pushVars, alertVars, cmpVars, fetchVars, storeVars, cmdVars,
    fundVars, tryVars>>

nonSchedVars == <<nonSchedProcVars, procVars>>

nonRateTryVars == <<schedVars, pushVars, alertVars, cmpVars, fetchVars, storeVars, cmdVars,
    fundVars, procVars>>

nonRateVars == <<nonRateTryVars, tryVars>>

nonPushVars == <<rateVars, alertVars, cmpVars, fetchVars, storeVars, cmdVars,
    fundVars, tryVars, procVars>>

nonAlertVars == <<schedVars, rateVars, pushVars, cmpVars, fetchVars, storeVars, cmdVars,
    fundVars, tryVars, procVars>>

nonCmpVars == <<schedVars, rateVars, pushVars, alertVars, fetchVars, storeVars, cmdVars,
    fundVars, tryVars, procVars>>

nonFetchVars == <<schedVars, rateVars, pushVars, alertVars, cmpVars, storeVars, cmdVars,
    fundVars, tryVars, procVars>>

nonStoreVars == <<schedVars, rateVars, pushVars, alertVars, cmpVars, fetchVars, cmdVars,
    fundVars, tryVars, procVars>>

nonCmdVars == <<schedVars, rateVars, pushVars, alertVars, cmpVars, fetchVars,
    fundVars, tryVars, procVars>>

nonFundVars == <<schedVars, rateVars, pushVars, alertVars, cmpVars, fetchVars, storeVars, cmdVars,
    tryVars, procVars>>

----------------------------------------------------------------------------
(* Bounds *)
MaxTimers == 3
MaxExtraErrors == 1
MaxConcurrentJobs == 2
MaxInFlight == MaxConcurrentJobs + 1
MaxRateLimit == 2
MaxTime == 4
MaxSubscribers == 3
MaxHistoryAtStart == 1
MaxAlerts == 2
MaxNotifications == 2
MaxPriceSteps == 2
MaxFetches == 1
MaxSubChanges == 1
MaxRowId == 3
MaxClock == 11
MaxCommands == 3

----------------------------------------------------------------------------
(* SchedulerService *)

\* Three ScheduledTask objects; T3 is a second definition registered under T1's id.
TaskObjs == {"T1", "T2", "T3"}

JobIds == {"trending_coins_hourly", "cleanup_old_records"}

TaskId(t) == IF t = "T2" THEN "cleanup_old_records" ELSE "trending_coins_hourly"

\* setupDefaultTasks: max_retries 3 for the push/alert jobs, 1 for the cleanup job
max_retries(t) == IF t = "T1" THEN 3 ELSE 1

\* bound on the failures the model lets one task accumulate
MaxErrors(t) == max_retries(t) + MaxExtraErrors

enabled(t) == TRUE

max_concurrent_jobs == MaxConcurrentJobs

NoResult == [success |-> TRUE, error |-> "none"]

\* cron.schedule(task.cron, callback, {scheduled: task.enabled})
NewTimer(task) == [task |-> task, status |-> IF enabled(task) THEN "running" ELSE "stopped"]

\* task.stop() / task.start() / task.destroy() on the registry's timer of an id
SetStatus(tm, reg, id, st) ==
    IF reg[id] = 0 THEN tm
    ELSE [tm EXCEPT ![reg[id]] = [@ EXCEPT !.status = st]]

PauseTimers_NoStop(tm, reg, id) == tm

PauseTimers_Every(tm, reg, id) ==
    [k \in DOMAIN tm |-> [tm[k] EXCEPT !.status = IF @ = "running" THEN "stopped" ELSE @]]

\* pauseTask: stops the timer registered under the id, no-op when there is none
PauseTimers(tm, reg, id) == SetStatus(tm, reg, id, "stopped")

\* resumeTask: starts the timer registered under the id, no-op when there is none
ResumeTimers(tm, reg, id) == SetStatus(tm, reg, id, "running")

UnscheduleTimers_KeepOld(tm, reg, id) == tm

\* unscheduleTask: stop + destroy the timer, delete the registry entry
UnscheduleTimers(tm, reg, id) == SetStatus(tm, reg, id, "destroyed")

UnscheduleRegistry(reg, id) == [reg EXCEPT ![id] = 0]

CeilingReached_OffByOne(running) == Cardinality(running) > max_concurrent_jobs

\* executeTask line 143: the ceiling test reads the size of the id set
CeilingReached(running) == Cardinality(running) >= max_concurrent_jobs

\* executeTask line 154
AddRunning(running, id) == running \cup {id}

\* executeTask line 198 (finally)
DeleteRunning(running, id) == running \ {id}

\* executeTask line 175
NextErrorCount(c) == c + 1

ShouldPause_AtThreshold(t, c) == c = max_retries(t)

\* executeTask line 188
ShouldPause(t, c) == c >= max_retries(t)

CatchesHandlerError_Rethrow == FALSE

\* executeTask lines 171-196: the handler's rejection is caught by the try/catch
CatchesHandlerError == TRUE

InFlightTotal == inFlight["T1"] + inFlight["T2"] + inFlight["T3"]

SchedInit ==
    /\ timers = <<NewTimer("T1"), NewTimer("T2")>>
    /\ tasks = [id \in JobIds |-> IF id = "trending_coins_hourly" THEN 1 ELSE 2]
    /\ runningTasks = {}
    /\ error_count = [t \in TaskObjs |-> 0]
    /\ inFlight = [t \in TaskObjs |-> 0]
    /\ lastResult = NoResult
    /\ escaped = FALSE
    /\ consecFails = [t \in TaskObjs |-> 0]
    /\ autoPaused = [t \in TaskObjs |-> "no"]
    /\ pauseCalls = [t \in TaskObjs |-> 0]

\* The cron callback of timer k fires and executeTask runs up to `await task.handler()`,
\* or returns the skip result when the ceiling is reached.
CronFireCore(k) ==
    /\ k \in DOMAIN timers
    /\ timers[k].status = "running"
    /\ LET t == timers[k].task IN
       IF CeilingReached(runningTasks)
       THEN /\ lastResult' = [success |-> FALSE, error |-> "Max concurrent jobs reached"]
            /\ UNCHANGED <<runningTasks, inFlight>>
       ELSE /\ InFlightTotal < MaxInFlight
            /\ runningTasks' = AddRunning(runningTasks, TaskId(t))
            /\ inFlight' = [inFlight EXCEPT ![t] = @ + 1]
            /\ UNCHANGED lastResult
    /\ UNCHANGED <<tasks, timers, error_count, escaped, consecFails, autoPaused, pauseCalls>>

CronFire(k) == CronFireCore(k) /\ UNCHANGED nonSchedVars

\* task.handler() resolves: executeTask returns the success result, finally runs.
HandlerReturnsCore(t) ==
    /\ inFlight[t] > 0
    /\ inFlight' = [inFlight EXCEPT ![t] = @ - 1]
    /\ lastResult' = [success |-> TRUE, error |-> "none"]
    /\ runningTasks' = DeleteRunning(runningTasks, TaskId(t))
    /\ consecFails' = [consecFails EXCEPT ![t] = 0]
    /\ UNCHANGED <<tasks, timers, error_count, escaped, autoPaused, pauseCalls>>

HandlerReturns(t) == HandlerReturnsCore(t) /\ UNCHANGED nonSchedVars

\* task.handler() rejects: catch block, conditional pauseTask, finally.
HandlerThrowsCore(t) ==
    /\ inFlight[t] > 0
    /\ error_count[t] < MaxErrors(t)
    /\ inFlight' = [inFlight EXCEPT ![t] = @ - 1]
    /\ runningTasks' = DeleteRunning(runningTasks, TaskId(t))
    /\ consecFails' = [consecFails EXCEPT ![t] = IF @ < max_retries(t) THEN @ + 1 ELSE @]
    /\ IF CatchesHandlerError
       THEN /\ error_count' = [error_count EXCEPT ![t] = NextErrorCount(@)]
            /\ lastResult' = [success |-> FALSE, error |-> "handler error"]
            /\ IF ShouldPause(t, error_count'[t])
               THEN /\ timers' = PauseTimers(timers, tasks, TaskId(t))
                    /\ autoPaused' = [autoPaused EXCEPT ![t] = "paused"]
                    /\ pauseCalls' = [pauseCalls EXCEPT ![t] = @ + 1]
               ELSE UNCHANGED <<timers, autoPaused, pauseCalls>>
            /\ UNCHANGED escaped
       ELSE /\ escaped' = TRUE
            /\ UNCHANGED <<error_count, lastResult, timers, autoPaused, pauseCalls>>
    /\ UNCHANGED tasks

HandlerThrows(t) == HandlerThrowsCore(t) /\ UNCHANGED nonSchedVars

ScheduleTask(t) ==
    /\ Len(timers) < MaxTimers
    /\ LET id == TaskId(t)
           tm == IF tasks[id] # 0 THEN UnscheduleTimers(timers, tasks, id) ELSE timers
       IN /\ timers' = Append(tm, NewTimer(t))
          /\ tasks' = [tasks EXCEPT ![id] = Len(timers) + 1]
    /\ autoPaused' = [autoPaused EXCEPT ![t] = IF @ = "no" THEN "no" ELSE "reregistered"]
    /\ UNCHANGED <<runningTasks, error_count, inFlight, lastResult, escaped, consecFails,
                   pauseCalls>>
    /\ UNCHANGED nonSchedVars

UnscheduleTask(id) ==
    /\ tasks[id] # 0
    /\ timers' = UnscheduleTimers(timers, tasks, id)
    /\ tasks' = UnscheduleRegistry(tasks, id)
    /\ UNCHANGED <<runningTasks, error_count, inFlight, lastResult, escaped,
                   consecFails, autoPaused, pauseCalls>>
    /\ UNCHANGED nonSchedVars

PauseTask(id) ==
    /\ tasks[id] # 0
    /\ timers[tasks[id]].status = "running"
    /\ timers' = PauseTimers(timers, tasks, id)
    /\ UNCHANGED <<tasks, runningTasks, error_count, inFlight, lastResult, escaped,
                   consecFails, autoPaused, pauseCalls>>
    /\ UNCHANGED nonSchedVars

ResumeTask(id) ==
    /\ tasks[id] # 0
    /\ timers[tasks[id]].status = "stopped"
    /\ timers' = ResumeTimers(timers, tasks, id)
    /\ autoPaused' = [t \in TaskObjs |-> IF TaskId(t) = id THEN "no" ELSE autoPaused[t]]
    /\ UNCHANGED <<tasks, runningTasks, error_count, inFlight, lastResult, escaped,
                   consecFails, pauseCalls>>
    /\ UNCHANGED nonSchedVars

\* stop(): every registered timer stopped and destroyed, both collections cleared
StopCore ==
    /\ \E id \in JobIds : tasks[id] # 0
    /\ timers' = [k \in DOMAIN timers |->
                    IF \E id \in JobIds : tasks[id] = k
                    THEN [timers[k] EXCEPT !.status = "destroyed"]
                    ELSE timers[k]]
    /\ tasks' = [id \in JobIds |-> 0]
    /\ runningTasks' = {}
    /\ UNCHANGED <<error_count, inFlight, lastResult, escaped, consecFails, autoPaused, pauseCalls>>

Stop == StopCore /\ UNCHANGED nonSchedVars

ProcInit == exited = FALSE

\* the SIGINT/SIGTERM handler: scheduler.stop(), bot.stop(), db.close() and
\* process.exit(0) run in one turn, with no await between them
Shutdown ==
    /\ ~exited
    /\ StopCore
    /\ exited' = TRUE
    /\ UNCHANGED nonSchedProcVars

\* the scheduler's operations, with scheduleTask called for the task objects of S
SchedNext(S) ==
    \/ \E k \in 1..MaxTimers : CronFire(k)
    \/ \E t \in TaskObjs : HandlerReturns(t)
    \/ \E t \in TaskObjs : HandlerThrows(t)
    \/ \E t \in S : ScheduleTask(t)
    \/ \E id \in JobIds : UnscheduleTask(id)
    \/ \E id \in JobIds : PauseTask(id)
    \/ \E id \in JobIds : ResumeTask(id)
    \/ Stop

----------------------------------------------------------------------------
(* Rate limiters: PriceComparisonService (per exchange) and CoinGeckoService *)

Sources == {"binance", "coingecko"}

\* concurrent fetches going through a client's request interceptor
Callers == {"f1", "f2"}

\* requestWindow = 60000 ms; the model's clock counts half windows
requestWindow == 2

\* config.<source>.rate_limit
rateLimit(s) == MaxRateLimit

\* part_001 line 113: this.rateLimits.get(exchange) || 100
DefaultedLimit(l) == IF l = 0 THEN 100 ELSE l

WindowElapsed(t, lastReset) == t - lastReset >= requestWindow

OverLimit_OffByOne(count, limit) == count > limit

\* requestCount >= rateLimit
OverLimit(count, limit) == count >= limit

WaitTime_Elapsed(t, lastReset) == t - lastReset

\* waitTime = requestWindow - (now - lastReset)
WaitTime(t, lastReset) == requestWindow - (t - lastReset)

RateInit ==
    /\ requestCounts = [s \in Sources |-> 0]
    /\ lastResets = [s \in Sources |-> 0]
    /\ now = 0
    /\ callerPc = [c \in Callers |-> "idle"]
    /\ callerSrc = [c \in Callers |-> "none"]
    /\ wakeAt = [c \in Callers |-> 0]
    /\ suspended = [c \in Callers |-> FALSE]
    /\ winStart = [s \in Sources |-> 0]
    /\ winAdmits = [s \in Sources |-> 0]
    /\ winImmediate = [s \in Sources |-> 0]

\* The request interceptor calls checkRateLimit, which runs up to its return or
\* up to `await sleep(waitTime)`.  PriceComparisonService returns right after a
\* window reset; CoinGeckoService falls through to the limit test.
CheckRateLimitCore(c, s) ==
    /\ callerPc[c] = "idle"
    /\ LET elapsed == WindowElapsed(now, lastResets[s])
           cnt == IF elapsed THEN 0 ELSE requestCounts[s]
           lr == IF elapsed THEN now ELSE lastResets[s]
           sleeps == IF s = "coingecko"
                     THEN OverLimit(cnt, rateLimit(s))
                     ELSE ~elapsed /\ OverLimit(cnt, DefaultedLimit(rateLimit(s)))
       IN /\ requestCounts' = [requestCounts EXCEPT ![s] = cnt]
          /\ lastResets' = [lastResets EXCEPT ![s] = lr]
          /\ callerPc' = [callerPc EXCEPT ![c] = IF sleeps THEN "sleeping" ELSE "inc"]
          /\ wakeAt' = [wakeAt EXCEPT ![c] = IF sleeps THEN now + WaitTime(now, lr) ELSE @]
          /\ suspended' = [suspended EXCEPT ![c] = sleeps]
    /\ callerSrc' = [callerSrc EXCEPT ![c] = s]
    /\ UNCHANGED <<now, winStart, winAdmits, winImmediate>>

\* a request that is not followed through its retries
CheckRateLimit(c, s) == CheckRateLimitCore(c, s) /\ UNCHANGED nonRateVars

\* sleep(waitTime) is over: checkRateLimit resets the window and returns
WakeUp(c) ==
    /\ callerPc[c] = "sleeping"
    /\ now >= wakeAt[c]
    /\ requestCounts' = [requestCounts EXCEPT ![callerSrc[c]] = 0]
    /\ lastResets' = [lastResets EXCEPT ![callerSrc[c]] = now]
    /\ callerPc' = [callerPc EXCEPT ![c] = "inc"]
    /\ wakeAt' = [wakeAt EXCEPT ![c] = 0]
    /\ UNCHANGED <<now, callerSrc, suspended, winStart, winAdmits, winImmediate>>
    /\ UNCHANGED nonRateVars

incrementRequestCount_Shared(counts, s) == [x \in DOMAIN counts |-> counts[x] + 1]

\* incrementRequestCount(exchange): requestCounts.set(exchange, current + 1);
\* CoinGeckoService: this.requestCount++
incrementRequestCount(counts, s) == [counts EXCEPT ![s] = @ + 1]

\* the interceptor resumes after `await this.checkRateLimit()`: the count is
\* incremented and the request is issued
IncrementRequestCountCore(c) ==
    /\ callerPc[c] = "inc"
    /\ LET s == callerSrc[c]
           fresh == now - winStart[s] >= requestWindow
           imm == IF suspended[c] THEN 0 ELSE 1
       IN /\ requestCounts' = incrementRequestCount(requestCounts, s)
          /\ winStart' = [winStart EXCEPT ![s] = IF fresh THEN now ELSE @]
          /\ winAdmits' = [winAdmits EXCEPT ![s] = IF fresh THEN 1 ELSE @ + 1]
          /\ winImmediate' = [winImmediate EXCEPT ![s] = IF fresh THEN imm ELSE @ + imm]
    /\ callerPc' = [callerPc EXCEPT ![c] = "idle"]
    /\ suspended' = [suspended EXCEPT ![c] = FALSE]
    /\ callerSrc' = [callerSrc EXCEPT ![c] = "none"]
    /\ UNCHANGED <<lastResets, now, wakeAt>>

IncrementRequestCount(c) == IncrementRequestCountCore(c) /\ UNCHANGED nonRateVars

\* time passes; a continuation that is ready to run (the pending increment)
\* runs before any timer or clock progress
Tick ==
    /\ now < MaxTime
    /\ \A c \in Callers : callerPc[c] # "inc"
    /\ now' = now + 1
    /\ UNCHANGED <<requestCounts, lastResets, callerPc, callerSrc, wakeAt, suspended,
                   winStart, winAdmits, winImmediate>>
    /\ UNCHANGED nonRateVars

\* the fetches of C use the limiters
RateNext(C) ==
    \/ \E c \in C, s \in Sources : CheckRateLimit(c, s)
    \/ \E c \in C : WakeUp(c)
    \/ \E c \in C : IncrementRequestCount(c)
    \/ Tick

----------------------------------------------------------------------------
(* Broadcast: SchedulerService.pushTrendingCoins and                        *)
(* TelegramBotService.broadcastToSubscribers over the store                 *)

Users == 1..MaxSubscribers

\* a user's row for the broadcast category is active, paused (is_active = 0) or
\* absent ("removed"), or the user only has a subscription of another category
SubStates == {"active", "paused", "other", "removed"}

\* the job whose handler is pushTrendingCoins
PushTask == "T1"

RECURSIVE ActiveUpTo(_, _)
\* getActiveSubscriptions(type): rows with is_active = 1 of that type, in table order
ActiveUpTo(subs, n) ==
    IF n = 0 THEN <<>>
    ELSE IF subs[n] = "active" THEN Append(ActiveUpTo(subs, n - 1), n)
         ELSE ActiveUpTo(subs, n - 1)

getActiveSubscriptions_IgnoreActive(subs) ==
    ActiveUpTo([u \in Users |-> IF subs[u] = "paused" THEN "active" ELSE subs[u]], MaxSubscribers)

getActiveSubscriptions(subs) == ActiveUpTo(subs, MaxSubscribers)

NotLoaded == [u \in Users |-> "removed"]

addRecord_Prepend(hist, rec) == <<rec>> \o hist

addRecord_DropFailures(hist, rec) == IF rec.success THEN Append(hist, rec) ELSE hist

\* addRecord(record): INSERT INTO push_history
addRecord(hist, rec) == Append(hist, rec)

SendFailureCaught_Rethrow == FALSE

\* broadcastToSubscribers lines 412-443: the loop body's try/catch
SendFailureCaught == TRUE

\* the loop moves to the next subscription, or ends and the handler returns
NextPc(list, i) == IF i < Len(list) THEN "send" ELSE "returned"

PushIdle ==
    /\ subscriptions = [u \in Users |-> "active"]
    /\ push_history = <<>>
    /\ hPc = "idle"
    /\ bList = <<>>
    /\ bIdx = 0
    /\ bStart = 0
    /\ bErr = "none"
    /\ sendLog = <<>>
    /\ storeFailed = FALSE
    /\ recipients = <<>>
    /\ loadedFrom = NotLoaded
    /\ subChanges = 0

PushInit ==
    /\ subscriptions \in [Users -> SubStates]
    /\ push_history = <<>>
    /\ hPc = "idle"
    /\ bList = <<>>
    /\ bIdx = 0
    /\ bStart = 0
    /\ bErr = "none"
    /\ sendLog = <<>>
    /\ storeFailed = FALSE
    /\ recipients = <<>>
    /\ loadedFrom = NotLoaded
    /\ subChanges = 0

\* the job's timer fires: executeTask up to `await task.handler()`
PushFire ==
    /\ hPc = "idle"
    /\ InFlightTotal = 0
    /\ Len(push_history) < MaxHistoryAtStart
    /\ CronFireCore(tasks[TaskId(PushTask)])
    /\ hPc' = IF inFlight'[PushTask] > 0 THEN "subs" ELSE "idle"
    /\ UNCHANGED <<subscriptions, push_history, bList, bIdx, bStart, bErr, sendLog, storeFailed>>
    /\ UNCHANGED liveVars
    /\ UNCHANGED nonPushVars

\* pushTrendingCoins line 204-205: db.getActiveSubscriptions, which may throw
PushLoadSubs ==
    /\ hPc = "subs"
    /\ \E ok \in BOOLEAN :
         hPc' = IF ~ok THEN "threw"
                ELSE IF Len(getActiveSubscriptions(subscriptions)) = 0 THEN "returned"
                ELSE "trending"
    /\ UNCHANGED <<subscriptions, push_history, bList, bIdx, bStart, bErr, sendLog, storeFailed>>
    /\ UNCHANGED liveVars
    /\ UNCHANGED <<schedVars, nonPushVars>>

\* pushTrendingCoins line 207-208: coinGecko.getTrendingCoins, which rethrows
PushFetchTrending ==
    /\ hPc = "trending"
    /\ \E r \in {"coins", "empty", "error"} :
         hPc' = IF r = "error" THEN "threw" ELSE IF r = "empty" THEN "returned" ELSE "bload"
    /\ UNCHANGED <<subscriptions, push_history, bList, bIdx, bStart, bErr, sendLog, storeFailed>>
    /\ UNCHANGED liveVars
    /\ UNCHANGED <<schedVars, nonPushVars>>

\* broadcastToSubscribers line 409: the list is loaded; a store error goes to the outer catch
BroadcastLoad ==
    /\ hPc = "bload"
    /\ \E ok \in BOOLEAN :
         IF ok
         THEN /\ bList' = getActiveSubscriptions(subscriptions)
              /\ bIdx' = 1
              /\ hPc' = NextPc(bList', 0)
              /\ UNCHANGED storeFailed
         ELSE /\ storeFailed' = TRUE
              /\ hPc' = "returned"
              /\ UNCHANGED <<bList, bIdx>>
    /\ bStart' = Len(push_history)
    /\ UNCHANGED <<subscriptions, push_history, bErr, sendLog>>
    /\ loadedFrom' = subscriptions
    /\ UNCHANGED <<recipients, subChanges>>
    /\ UNCHANGED <<schedVars, nonPushVars>>

\* line 413: bot.sendMessage to the current subscription resolves or rejects
BroadcastSend ==
    /\ hPc = "send"
    /\ \E ok \in BOOLEAN :
         /\ sendLog' = Append(sendLog, ok)
         /\ hPc' = IF ok THEN "recOk" ELSE IF SendFailureCaught THEN "recFail" ELSE "threw"
         /\ bErr' = IF ok THEN bErr ELSE "send error"
    /\ UNCHANGED <<subscriptions, push_history, bList, bIdx, bStart, storeFailed>>
    /\ recipients' = Append(recipients, bList[bIdx])
    /\ UNCHANGED <<loadedFrom, subChanges>>
    /\ UNCHANGED <<schedVars, nonPushVars>>

\* lines 416-422: addRecord(success: true); its error is caught by the loop body's catch
BroadcastRecordSuccess ==
    /\ hPc = "recOk"
    /\ \E ok \in BOOLEAN :
         IF ok
         THEN /\ push_history' = addRecord(push_history,
                     [user_id |-> bList[bIdx], success |-> TRUE, error_message |-> "none"])
              /\ hPc' = "delay"
              /\ UNCHANGED <<bErr, storeFailed>>
         ELSE /\ bErr' = "db error"
              /\ storeFailed' = TRUE
              /\ hPc' = "recFail"
              /\ UNCHANGED push_history
    /\ UNCHANGED <<subscriptions, bList, bIdx, bStart, sendLog>>
    /\ UNCHANGED liveVars
    /\ UNCHANGED <<schedVars, nonPushVars>>

\* line 425: the 100 ms pause after a recorded success
BroadcastDelay ==
    /\ hPc = "delay"
    /\ hPc' = NextPc(bList, bIdx)
    /\ bIdx' = bIdx + 1
    /\ UNCHANGED <<subscriptions, push_history, bList, bStart, bErr, sendLog, storeFailed>>
    /\ UNCHANGED liveVars
    /\ UNCHANGED <<schedVars, nonPushVars>>

\* lines 426-442: the catch logs and calls addRecord(success: false, error_message);
\* an error of this addRecord goes to the outer catch, which ends the broadcast
BroadcastRecordFailure ==
    /\ hPc = "recFail"
    /\ \E ok \in BOOLEAN :
         IF ok
         THEN /\ push_history' = addRecord(push_history,
                     [user_id |-> bList[bIdx], success |-> FALSE, error_message |-> bErr])
              /\ hPc' = NextPc(bList, bIdx)
              /\ bIdx' = bIdx + 1
              /\ UNCHANGED storeFailed
         ELSE /\ storeFailed' = TRUE
              /\ hPc' = "returned"
              /\ UNCHANGED <<push_history, bIdx>>
    /\ bErr' = "none"
    /\ UNCHANGED <<subscriptions, bList, bStart, sendLog>>
    /\ UNCHANGED liveVars
    /\ UNCHANGED <<schedVars, nonPushVars>>

\* the handler's promise settles: executeTask's success path or catch path, then finally
PushJobCompletes ==
    /\ hPc \in {"returned", "threw"}
    /\ IF hPc = "returned" THEN HandlerReturnsCore(PushTask) ELSE HandlerThrowsCore(PushTask)
    /\ hPc' = "idle"
    /\ bList' = <<>>
    /\ bIdx' = 0
    /\ bStart' = 0
    /\ bErr' = "none"
    /\ sendLog' = <<>>
    /\ storeFailed' = FALSE
    /\ UNCHANGED <<subscriptions, push_history>>
    /\ recipients' = <<>>
    /\ loadedFrom' = NotLoaded
    /\ UNCHANGED subChanges
    /\ UNCHANGED nonPushVars

\* a user changes the subscription, before or between the job's steps:
\* updateSubscription(is_active), removeSubscription or addSubscription
SubscriptionChange(u, st) ==
    /\ subChanges < MaxSubChanges
    /\ subscriptions[u] # st
    /\ subscriptions' = [subscriptions EXCEPT ![u] = st]
    /\ subChanges' = subChanges + 1
    /\ UNCHANGED <<push_history, hPc, bList, bIdx, bStart, bErr, sendLog, storeFailed,
                   recipients, loadedFrom>>
    /\ UNCHANGED <<schedVars, nonPushVars>>

PushNext ==
    \/ PushFire
    \/ PushLoadSubs
    \/ PushFetchTrending
    \/ BroadcastLoad
    \/ BroadcastSend
    \/ BroadcastRecordSuccess
    \/ BroadcastDelay
    \/ BroadcastRecordFailure
    \/ PushJobCompletes

----------------------------------------------------------------------------
(* Alert evaluator: SchedulerService.checkPriceAlerts over the price_alerts table *)

AlertIds == 1..MaxAlerts

\* executions of checkPriceAlerts that may be in flight together
Runs == {"r1", "r2"}

Symbols == {"btc", "eth"}

Conditions == {"above", "below"}

\* target_price of the alerts and the prices the source may report around it
TargetPrice == 100

AlertPrices == {TargetPrice - 1, TargetPrice, TargetPrice + 1}

RECURSIVE ActiveAlertsUpTo(_, _)
\* getActiveAlerts: SELECT * FROM price_alerts WHERE is_active = 1 AND triggered = 0
ActiveAlertsUpTo(tbl, n) ==
    IF n = 0 THEN <<>>
    ELSE IF tbl[n].is_active /\ ~tbl[n].triggered
         THEN Append(ActiveAlertsUpTo(tbl, n - 1), n)
         ELSE ActiveAlertsUpTo(tbl, n - 1)

getActiveAlerts(tbl) == ActiveAlertsUpTo(tbl, MaxAlerts)

\* triggerAlert: UPDATE price_alerts SET triggered = 1 WHERE id = ?
triggerAlert(tbl, id) == [tbl EXCEPT ![id] = [@ EXCEPT !.triggered = TRUE]]

\* the `updates` a caller may pass to updateAlert: any of the two flags
AlertUpdates == UNION {[F -> BOOLEAN] : F \in (SUBSET {"is_active", "triggered"}) \ {{}}}

\* updateAlert: UPDATE price_alerts SET <every key of updates but id> WHERE id = ?
updateAlert(tbl, id, updates) ==
    [tbl EXCEPT ![id] = [f \in DOMAIN @ |-> IF f \in DOMAIN updates THEN updates[f] ELSE @[f]]]

RECURSIVE GroupKeys(_, _)
\* keys of alertsBySymbol in insertion order: the symbols by first appearance
GroupKeys(tbl, list) ==
    IF list = <<>> THEN <<>>
    ELSE LET rest == GroupKeys(tbl, SubSeq(list, 1, Len(list) - 1))
             sym == tbl[list[Len(list)]].symbol
         IN IF \E i \in DOMAIN rest : rest[i] = sym THEN rest ELSE Append(rest, sym)

RECURSIVE GroupOf(_, _, _)
\* alertsBySymbol.get(symbol): the loaded alerts of that symbol, in load order
GroupOf(tbl, list, sym) ==
    IF list = <<>> THEN <<>>
    ELSE LET rest == GroupOf(tbl, SubSeq(list, 1, Len(list) - 1), sym)
             a == list[Len(list)]
         IN IF tbl[a].symbol = sym THEN Append(rest, a) ELSE rest

\* the symbolAlerts of the group run r is working on
symbolAlerts(r) == GroupOf(price_alerts, alerts[r], GroupKeys(price_alerts, alerts[r])[aGroup[r]])

Matches_Strict(alert, price) ==
    \/ alert.condition = "above" /\ price > alert.target_price
    \/ alert.condition = "below" /\ price < alert.target_price

\* lines 330-336: the match test of one alert against the fetched price
Matches(alert, price) ==
    \/ alert.condition = "above" /\ price >= alert.target_price
    \/ alert.condition = "below" /\ price <= alert.target_price

AlertIdle ==
    /\ price_alerts = [a \in AlertIds |->
                         [symbol |-> "btc", condition |-> "below", target_price |-> TargetPrice,
                          is_active |-> TRUE, triggered |-> FALSE]]
    /\ aPc = [r \in Runs |-> "idle"]
    /\ alerts = [r \in Runs |-> <<>>]
    /\ aGroup = [r \in Runs |-> 0]
    /\ aIdx = [r \in Runs |-> 0]
    /\ currentPrice = [r \in Runs |-> 0]
    /\ notified = [a \in AlertIds |-> 0]
    /\ triggerCount = [a \in AlertIds |-> 0]
    /\ aSkips = [r \in Runs |-> 0]

AlertInit ==
    /\ price_alerts \in [AlertIds -> [symbol : Symbols, condition : Conditions,
                                      target_price : {TargetPrice},
                                      is_active : {TRUE}, triggered : {FALSE}]]
    /\ aPc = [r \in Runs |-> "idle"]
    /\ alerts = [r \in Runs |-> <<>>]
    /\ aGroup = [r \in Runs |-> 0]
    /\ aIdx = [r \in Runs |-> 0]
    /\ currentPrice = [r \in Runs |-> 0]
    /\ notified = [a \in AlertIds |-> 0]
    /\ triggerCount = [a \in AlertIds |-> 0]
    /\ aSkips = [r \in Runs |-> 0]

\* the run leaves its position: next alert of the group, else the pause after the group
AlertAdvance(r) ==
    IF aIdx[r] < Len(symbolAlerts(r))
    THEN /\ aIdx' = [aIdx EXCEPT ![r] = @ + 1]
         /\ aPc' = [aPc EXCEPT ![r] = "eval"]
    ELSE /\ aIdx' = [aIdx EXCEPT ![r] = 0]
         /\ aPc' = [aPc EXCEPT ![r] = "sleep"]

GroupAdvance_EndRun(r) ==
    /\ aGroup' = [aGroup EXCEPT ![r] = 0]
    /\ aPc' = [aPc EXCEPT ![r] = "idle"]
    /\ alerts' = [alerts EXCEPT ![r] = <<>>]

\* the outer loop moves to the next symbol group, or the run ends
GroupAdvance(r) ==
    IF aGroup[r] < Len(GroupKeys(price_alerts, alerts[r]))
    THEN /\ aGroup' = [aGroup EXCEPT ![r] = @ + 1]
         /\ aPc' = [aPc EXCEPT ![r] = "fetch"]
         /\ UNCHANGED alerts
    ELSE /\ aGroup' = [aGroup EXCEPT ![r] = 0]
         /\ aPc' = [aPc EXCEPT ![r] = "idle"]
         /\ alerts' = [alerts EXCEPT ![r] = <<>>]

\* lines 306-317: a run starts, loads the active untriggered alerts and groups
\* them; a store error or an empty list ends the run
AlertLoad(r) ==
    /\ aPc[r] = "idle"
    /\ \E ok \in BOOLEAN :
         LET list == IF ok THEN getActiveAlerts(price_alerts) ELSE <<>>
         IN /\ list # <<>>
            /\ alerts' = [alerts EXCEPT ![r] = list]
            /\ aGroup' = [aGroup EXCEPT ![r] = 1]
            /\ aPc' = [aPc EXCEPT ![r] = "fetch"]
    /\ UNCHANGED <<price_alerts, aIdx, currentPrice, notified, triggerCount>>
    /\ UNCHANGED aSkips
    /\ UNCHANGED nonAlertVars

\* lines 323-326: getSimplePrices for the group's symbol: a price, no price
\* (`continue`), or an error caught by the group's try/catch
AlertFetch(r) ==
    /\ aPc[r] = "fetch"
    /\ \/ \E p \in AlertPrices :
            /\ currentPrice' = [currentPrice EXCEPT ![r] = p]
            /\ aIdx' = [aIdx EXCEPT ![r] = 1]
            /\ aPc' = [aPc EXCEPT ![r] = "eval"]
            /\ UNCHANGED <<alerts, aGroup>>
            /\ UNCHANGED aSkips
       \/ /\ GroupAdvance(r)
          /\ aSkips' = [aSkips EXCEPT ![r] = IF aPc'[r] = "idle" THEN 0 ELSE @ + 1]
          /\ UNCHANGED <<currentPrice, aIdx>>
    /\ UNCHANGED <<price_alerts, notified, triggerCount>>
    /\ UNCHANGED nonAlertVars

\* lines 329-338: the alert at the inner loop's position is tested
AlertEval(r) ==
    /\ aPc[r] = "eval"
    /\ LET a == symbolAlerts(r)[aIdx[r]]
       IN IF Matches(price_alerts[a], currentPrice[r])
          THEN /\ aPc' = [aPc EXCEPT ![r] = "send"]
               /\ UNCHANGED aIdx
          ELSE AlertAdvance(r)
    /\ UNCHANGED <<price_alerts, alerts, aGroup, currentPrice, notified, triggerCount>>
    /\ UNCHANGED aSkips
    /\ UNCHANGED nonAlertVars

AfterSend_TriggerAnyway(r, sent) ==
    /\ aPc' = [aPc EXCEPT ![r] = "trigger"]
    /\ UNCHANGED aIdx

\* lines 351-368: after a resolved sendMessage the try block goes on to
\* triggerAlert; a rejection enters the catch, which logs, and the loop goes on
AfterSend(r, sent) ==
    IF sent THEN /\ aPc' = [aPc EXCEPT ![r] = "trigger"]
                 /\ UNCHANGED aIdx
    ELSE AlertAdvance(r)

\* line 352: bot.sendMessage to the alert's chat; a rejection is caught and logged
AlertSend(r) ==
    /\ aPc[r] = "send"
    /\ LET a == symbolAlerts(r)[aIdx[r]]
       IN \E sent \in BOOLEAN :
            /\ sent => notified[a] < MaxNotifications
            /\ notified' = [notified EXCEPT ![a] = IF sent THEN @ + 1 ELSE @]
            /\ AfterSend(r, sent)
    /\ UNCHANGED <<price_alerts, alerts, aGroup, currentPrice, triggerCount>>
    /\ UNCHANGED aSkips
    /\ UNCHANGED nonAlertVars

\* line 355: db.triggerAlert(alert.id); a store error is caught and logged
AlertTrigger(r) ==
    /\ aPc[r] = "trigger"
    /\ LET a == symbolAlerts(r)[aIdx[r]]
       IN \/ /\ price_alerts' = triggerAlert(price_alerts, a)
             /\ triggerCount' = [triggerCount EXCEPT ![a] = @ + 1]
          \/ UNCHANGED <<price_alerts, triggerCount>>
    /\ AlertAdvance(r)
    /\ UNCHANGED <<alerts, aGroup, currentPrice, notified>>
    /\ UNCHANGED aSkips
    /\ UNCHANGED nonAlertVars

\* line 372: sleep(200) after a group, then the next group
AlertSleep(r) ==
    /\ aPc[r] = "sleep"
    /\ GroupAdvance(r)
    /\ currentPrice' = [currentPrice EXCEPT ![r] = 0]
    /\ aSkips' = [aSkips EXCEPT ![r] = IF aPc'[r] = "idle" THEN 0 ELSE @]
    /\ UNCHANGED <<price_alerts, aIdx, notified, triggerCount>>
    /\ UNCHANGED nonAlertVars

\* a caller of the store updates an alert (any time between the evaluator's steps)
UpdateAlert(a, updates) ==
    /\ price_alerts' = updateAlert(price_alerts, a, updates)
    /\ UNCHANGED <<aPc, alerts, aGroup, aIdx, currentPrice, notified, triggerCount>>
    /\ UNCHANGED aSkips
    /\ UNCHANGED nonAlertVars

\* the runs of R of the evaluator
AlertNext(R) ==
    \/ \E r \in R : AlertLoad(r)
    \/ \E r \in R : AlertFetch(r)
    \/ \E r \in R : AlertEval(r)
    \/ \E r \in R : AlertSend(r)
    \/ \E r \in R : AlertTrigger(r)
    \/ \E r \in R : AlertSleep(r)

----------------------------------------------------------------------------
(* Price comparison: PriceComparisonService.getAllPrices / comparePrices    *)
(* and the loop of SchedulerService.pushPriceComparison                     *)

\* the order of pricePromises in getAllPrices
Exchanges == <<"binance", "okx", "bybit">>

\* pushPriceComparison line 225
CompareSymbols == <<"BTCUSDT", "ETHUSDT", "SUIUSDT">>

ExchangeSet == {"binance", "okx", "bybit"}

\* prices a ticker may report
Prices == {100 + 5 * k : k \in 0..MaxPriceSteps}

Pending == [status |-> "pending", price |-> 0]

\* get<Exchange>Price resolved to null (its catch, or no data)
NullQuote == [status |-> "null", price |-> 0]

Quote(p) == [status |-> "fulfilled", price |-> p]

\* quotients of numbers, compared exactly
RatDiv(a, b) == [num |-> a, den |-> b]

RatMul(q, k) == [num |-> q.num * k, den |-> q.den]

RatEq(q, r) == q.num * r.den = r.num * q.den

RECURSIVE CollectPrices(_, _)
\* getAllPrices lines 316-331: the fulfilled non-null results, in exchange order
CollectPrices(res, n) ==
    IF n = 0 THEN <<>>
    ELSE LET e == Exchanges[n]
         IN IF res[e].status = "fulfilled"
            THEN Append(CollectPrices(res, n - 1), [exchange |-> e, price |-> res[e].price])
            ELSE CollectPrices(res, n - 1)

getAllPrices(res) == CollectPrices(res, Len(Exchanges))

Before_Descending(a, b) == a.price > b.price

\* the comparator (a, b) => a.price - b.price: a sorts before b when it is negative
Before(a, b) == a.price < b.price

RECURSIVE InsertSorted(_, _)
\* q goes behind every element that does not sort after it (Array.prototype.sort is stable)
InsertSorted(sorted, q) ==
    IF sorted = <<>> THEN <<q>>
    ELSE IF Before(q, sorted[Len(sorted)])
         THEN Append(InsertSorted(SubSeq(sorted, 1, Len(sorted) - 1), q), sorted[Len(sorted)])
         ELSE Append(sorted, q)

RECURSIVE SortByPrice(_)
\* [...prices].sort((a, b) => a.price - b.price)
SortByPrice(prices) ==
    IF prices = <<>> THEN <<>>
    ELSE InsertSorted(SortByPrice(SubSeq(prices, 1, Len(prices) - 1)), prices[Len(prices)])

NoQuote == [exchange |-> "none", price |-> 0]

\* the null returned by comparePrices
NullComparison ==
    [present |-> FALSE, prices |-> <<>>, best_price |-> NoQuote, worst_price |-> NoQuote,
     price_difference |-> 0, price_difference_percentage |-> RatDiv(0, 1)]

\* comparePrices lines 373-403
comparePrices(res) ==
    LET prices == getAllPrices(res)
        sortedPrices == SortByPrice(prices)
        bestPrice == sortedPrices[1]
        worstPrice == sortedPrices[Len(sortedPrices)]
        priceDifference == worstPrice.price - bestPrice.price
    IN IF Len(prices) = 0 THEN NullComparison
       ELSE [present |-> TRUE, prices |-> prices,
             best_price |-> bestPrice, worst_price |-> worstPrice,
             price_difference |-> priceDifference,
             price_difference_percentage |->
                 RatMul(RatDiv(priceDifference, bestPrice.price), 100)]

SkipsSymbol_Never(c) == FALSE

\* pushPriceComparison line 230: if (!comparison) continue
SkipsSymbol(c) == ~c.present

CmpInit ==
    /\ cPc = "idle"
    /\ cSym = 0
    /\ fetchRes = [e \in ExchangeSet |-> Pending]
    /\ comparison = NullComparison
    /\ cSkipped = {}
    /\ cSent = [i \in DOMAIN CompareSymbols |-> 0]

\* the loop goes to its next symbol and calls comparePrices, which starts the
\* three fetches; after the last symbol the handler returns
CompareNextSymbol ==
    /\ fetchRes' = [e \in ExchangeSet |-> Pending]
    /\ comparison' = NullComparison
    /\ IF cSym < Len(CompareSymbols)
       THEN cSym' = cSym + 1 /\ cPc' = "fetching"
       ELSE cSym' = 0 /\ cPc' = "idle"

\* pushPriceComparison starts (its subscription list is not empty)
CompareStart ==
    /\ cPc = "idle"
    /\ cSym = 0
    /\ cSkipped = {}
    /\ \A i \in DOMAIN cSent : cSent[i] = 0
    /\ CompareNextSymbol
    /\ UNCHANGED <<cSkipped, cSent>>
    /\ UNCHANGED nonCmpVars

\* one exchange's fetch settles, with a quote or with null
FetchSettles(e) ==
    /\ cPc = "fetching"
    /\ fetchRes[e] = Pending
    /\ \E q \in {NullQuote} \cup {Quote(p) : p \in Prices} :
         fetchRes' = [fetchRes EXCEPT ![e] = q]
    /\ UNCHANGED <<cPc, cSym, comparison, cSkipped, cSent>>
    /\ UNCHANGED nonCmpVars

AllSettled_First(res) == \E e \in ExchangeSet : res[e] # Pending

\* getAllPrices line 315: await Promise.allSettled(pricePromises)
AllSettled(res) == \A e \in ExchangeSet : res[e] # Pending

\* Promise.allSettled resolves once no fetch is pending; comparePrices returns
CompareReturns ==
    /\ cPc = "fetching"
    /\ AllSettled(fetchRes)
    /\ comparison' = comparePrices(fetchRes)
    /\ cPc' = "compared"
    /\ UNCHANGED <<cSym, fetchRes, cSkipped, cSent>>
    /\ UNCHANGED nonCmpVars

\* lines 230-232: an absent comparison skips the symbol, otherwise the message is built
CompareCheck ==
    /\ cPc = "compared"
    /\ IF SkipsSymbol(comparison)
       THEN /\ cSkipped' = cSkipped \cup {cSym}
            /\ CompareNextSymbol
       ELSE /\ cPc' = "broadcast"
            /\ UNCHANGED <<cSym, fetchRes, comparison, cSkipped>>
    /\ UNCHANGED cSent
    /\ UNCHANGED nonCmpVars

\* lines 234-238: broadcastToSubscribers for the symbol
CompareBroadcast ==
    /\ cPc = "broadcast"
    /\ cSent' = [cSent EXCEPT ![cSym] = @ + 1]
    /\ cPc' = "sleep"
    /\ UNCHANGED <<cSym, fetchRes, comparison, cSkipped>>
    /\ UNCHANGED nonCmpVars

\* line 241: sleep(1000), then the next symbol
CompareSleep ==
    /\ cPc = "sleep"
    /\ CompareNextSymbol
    /\ UNCHANGED <<cSkipped, cSent>>
    /\ UNCHANGED nonCmpVars

CatchesSymbolError_AroundLoop == FALSE

\* lines 228 and 242-244: the try/catch is inside the loop body
CatchesSymbolError == TRUE

\* an error is raised inside the try for the symbol: comparePrices rejects (its
\* catch rethrows), or formatPriceComparison throws on the comparison; the
\* catch logs it and the loop goes to its next symbol
CompareRaises ==
    /\ \/ cPc = "fetching" /\ AllSettled(fetchRes)
       \/ cPc = "compared" /\ ~SkipsSymbol(comparison)
    /\ IF CatchesSymbolError
       THEN CompareNextSymbol
       ELSE /\ cPc' = "failed"
            /\ UNCHANGED <<cSym, fetchRes, comparison>>
    /\ UNCHANGED <<cSkipped, cSent>>
    /\ UNCHANGED nonCmpVars

CmpNext ==
    \/ CompareStart
    \/ \E e \in ExchangeSet : FetchSettles(e)
    \/ CompareReturns
    \/ CompareCheck
    \/ CompareBroadcast
    \/ CompareSleep
    \/ CompareRaises

----------------------------------------------------------------------------
(* Source clients: the fetch operations of PriceComparisonService and        *)
(* CoinGeckoService, from the request to the value handed to the caller      *)

Clients == {"binance", "okx", "bybit", "coingecko"}

\* the operations of a client that the jobs use
Ops(c) == IF c = "coingecko" THEN {"getSimplePrices", "getTrendingCoins"}
          ELSE {"price", "fundingRate"}

AllOps == {"price", "fundingRate", "getSimplePrices", "getTrendingCoins"}

\* HTTP outcomes of one request: 0 stands for a network error or timeout
Statuses == {200, 429, 500, 0}

\* shape of a 200 response: usable data, an empty result list, or a body
\* without the expected fields
Bodies == {"data", "empty", "malformed"}

\* the count passed to retry(fn, count, delay): 2 by the exchange fetches, 3 by CoinGecko
retries(c) == IF c = "coingecko" THEN 3 ELSE 2

\* retry(fn, n, delay): the first call and up to n further ones
MaxAttempts(c) == retries(c) + 1

\* response error interceptor: 429 becomes RateLimitError, anything else ApiError
ResponseError(status) == IF status = 429 THEN "RateLimitError" ELSE "ApiError"

\* what the code after `await retry(...)` makes of a 200 response
ParseBody(c, body) ==
    IF body = "malformed" THEN "throws"
    ELSE IF body = "data" THEN "value"
    ELSE IF c \in {"okx", "bybit"} THEN "null"
    ELSE "value"

CatchOutcome_RethrowRateLimit(c, err) ==
    IF c = "coingecko" \/ err = "RateLimitError" THEN "raised" ELSE "null"

\* the catch block of the operation: the exchange fetches log and return null,
\* the CoinGecko operations log and `throw error`
CatchOutcome(c, err) == IF c = "coingecko" THEN "raised" ELSE "null"

FetchInit ==
    /\ qPc = [c \in Clients |-> "idle"]
    /\ qOp = [c \in Clients |-> "none"]
    /\ qAttempt = [c \in Clients |-> 0]
    /\ qErr = [c \in Clients |-> "none"]
    /\ qOut = [c \in Clients |-> "none"]

\* a caller invokes the operation: retry issues the first request (the model
\* follows at most MaxFetches fetches at a time; they share no state)
FetchStart(c, op) ==
    /\ qPc[c] = "idle"
    /\ Cardinality({d \in Clients : qPc[d] # "idle"}) < MaxFetches
    /\ op \in Ops(c)
    /\ qPc' = [qPc EXCEPT ![c] = "request"]
    /\ qOp' = [qOp EXCEPT ![c] = op]
    /\ qAttempt' = [qAttempt EXCEPT ![c] = 1]
    /\ qErr' = [qErr EXCEPT ![c] = "none"]
    /\ qOut' = [qOut EXCEPT ![c] = "none"]
    /\ UNCHANGED nonFetchVars

\* the request settles: a 200 response is parsed, an error response is
\* retried while attempts remain and then reaches the operation's catch
FetchResponds(c) ==
    /\ qPc[c] = "request"
    /\ \E status \in Statuses, body \in Bodies :
         IF status = 200
         THEN LET r == ParseBody(c, body)
              IN /\ qPc' = [qPc EXCEPT ![c] = "done"]
                 /\ qErr' = [qErr EXCEPT ![c] = IF r = "throws" THEN "TypeError" ELSE @]
                 /\ qOut' = [qOut EXCEPT ![c] =
                                IF r = "throws" THEN CatchOutcome(c, "TypeError") ELSE r]
                 /\ UNCHANGED qAttempt
         ELSE /\ qErr' = [qErr EXCEPT ![c] = ResponseError(status)]
              /\ IF qAttempt[c] < MaxAttempts(c)
                 THEN /\ qAttempt' = [qAttempt EXCEPT ![c] = @ + 1]
                      /\ UNCHANGED <<qPc, qOut>>
                 ELSE /\ qPc' = [qPc EXCEPT ![c] = "done"]
                      /\ qOut' = [qOut EXCEPT ![c] = CatchOutcome(c, ResponseError(status))]
                      /\ UNCHANGED qAttempt
    /\ UNCHANGED qOp
    /\ UNCHANGED nonFetchVars

\* the caller has taken the settled value; the client is free for the next call
FetchTaken(c) ==
    /\ qPc[c] = "done"
    /\ qPc' = [qPc EXCEPT ![c] = "idle"]
    /\ qOp' = [qOp EXCEPT ![c] = "none"]
    /\ qAttempt' = [qAttempt EXCEPT ![c] = 0]
    /\ qErr' = [qErr EXCEPT ![c] = "none"]
    /\ qOut' = [qOut EXCEPT ![c] = "none"]
    /\ UNCHANGED nonFetchVars

FetchNext ==
    \/ \E c \in Clients, op \in AllOps : FetchStart(c, op)
    \/ \E c \in Clients : FetchResponds(c)
    \/ \E c \in Clients : FetchTaken(c)

----------------------------------------------------------------------------
(* The attempts of one fetch and the rate limiter of its source             *)

TryInit ==
    /\ tryNo = [c \in Callers |-> 0]
    /\ trySrc = [c \in Callers |-> "none"]
    /\ reqOut = [c \in Callers |-> FALSE]

\* a fetch on source s begins: retry calls fn, client.get enters the request
\* interceptor, which runs checkRateLimit
TryStart(c, s) ==
    /\ tryNo[c] = 0
    /\ CheckRateLimitCore(c, s)
    /\ tryNo' = [tryNo EXCEPT ![c] = 1]
    /\ trySrc' = [trySrc EXCEPT ![c] = s]
    /\ UNCHANGED reqOut
    /\ UNCHANGED nonRateTryVars

\* the interceptor increments the count and returns config: the request is issued
TryIssue(c) ==
    /\ tryNo[c] > 0
    /\ IncrementRequestCountCore(c)
    /\ reqOut' = [reqOut EXCEPT ![c] = TRUE]
    /\ UNCHANGED <<tryNo, trySrc>>
    /\ UNCHANGED nonRateTryVars

\* the request fails while attempts remain: retry calls fn again, and
\* client.get enters the request interceptor again
TryFails(c) ==
    /\ reqOut[c]
    /\ tryNo[c] < MaxAttempts(trySrc[c])
    /\ CheckRateLimitCore(c, trySrc[c])
    /\ tryNo' = [tryNo EXCEPT ![c] = @ + 1]
    /\ reqOut' = [reqOut EXCEPT ![c] = FALSE]
    /\ UNCHANGED trySrc
    /\ UNCHANGED nonRateTryVars

\* the request succeeds, or fails with no attempt left: the fetch is over
TrySettles(c) ==
    /\ reqOut[c]
    /\ tryNo' = [tryNo EXCEPT ![c] = 0]
    /\ trySrc' = [trySrc EXCEPT ![c] = "none"]
    /\ reqOut' = [reqOut EXCEPT ![c] = FALSE]
    /\ UNCHANGED rateVars
    /\ UNCHANGED nonRateTryVars

TryNext(C) ==
    \/ \E c \in C, s \in Sources : TryStart(c, s)
    \/ \E c \in C : WakeUp(c)
    \/ \E c \in C : TryIssue(c)
    \/ \E c \in C : TryFails(c)
    \/ \E c \in C : TrySettles(c)
    \/ Tick

----------------------------------------------------------------------------
(* DatabaseService: subscriptions, push history and user deletion            *)

StoreUsers == {1, 2}

SubTypes == {"trending_coins", "price_comparison"}

\* 24 * 60 * 60 * 1000 ms, in the clock's unit of half a day
DayTicks == 2

\* values of daysToKeep
RetentionDays == {0, 1, 2}

\* Date.toISOString(): a fixed-width text, here the two decimal digits of the time
ToISO(t) == <<t \div 10, t % 10>>

TextLess_OrEqual(a, b) == a[1] < b[1] \/ (a[1] = b[1] /\ a[2] <= b[2])

\* SQLite's `<` on two TEXT values: the first differing character decides
TextLess(a, b) == a[1] < b[1] \/ (a[1] = b[1] /\ a[2] < b[2])

\* cleanOldRecords: DELETE FROM push_history WHERE timestamp < cutoffDate
cleanOldRecords(rows, t, daysToKeep) ==
    LET cutoffDate == ToISO(t - daysToKeep * DayTicks)
    IN {r \in rows : ~TextLess(r.timestamp, cutoffDate)}

addSubscription_PlainInsert(rows, id, sub) ==
    rows \cup {[id |-> id, user_id |-> sub.user_id,
                subscription_type |-> sub.subscription_type, is_active |-> sub.is_active]}

\* addSubscription: INSERT OR REPLACE under UNIQUE(user_id, subscription_type):
\* the row in conflict is deleted, the new row gets a fresh id
addSubscription(rows, id, sub) ==
    {r \in rows : ~(r.user_id = sub.user_id /\ r.subscription_type = sub.subscription_type)}
        \cup {[id |-> id, user_id |-> sub.user_id,
               subscription_type |-> sub.subscription_type, is_active |-> sub.is_active]}

\* removeSubscription: DELETE FROM subscriptions WHERE user_id = ? AND subscription_type = ?
removeSubscription(rows, u, ty) ==
    {r \in rows : ~(r.user_id = u /\ r.subscription_type = ty)}

\* the `updates` a caller may pass to updateSubscription
SubUpdates ==
    [is_active : BOOLEAN] \cup [user_id : StoreUsers] \cup [subscription_type : SubTypes]
        \cup [is_active : BOOLEAN, user_id : StoreUsers]

\* updateSubscription lines 291-292: the keys it writes
UpdatedFields(updates) == DOMAIN updates \ {"user_id", "subscription_type"}

\* updateSubscription: UPDATE subscriptions SET <fields> WHERE user_id = ? AND subscription_type = ?
updateSubscription(rows, u, ty, updates) ==
    {IF r.user_id = u /\ r.subscription_type = ty
     THEN [f \in DOMAIN r |-> IF f \in UpdatedFields(updates) THEN updates[f] ELSE r[f]]
     ELSE r : r \in rows}

\* the four tables as one value
Tables == [users |-> users, subscriptions |-> subscription_rows,
           alerts |-> alert_rows, history |-> history_rows]

\* the first n statements of deleteUser's transaction body
DeleteStatements(db, u, n) ==
    [users |-> IF n >= 4 THEN db.users \ {u} ELSE db.users,
     subscriptions |-> IF n >= 1 THEN {r \in db.subscriptions : r.user_id # u}
                       ELSE db.subscriptions,
     alerts |-> IF n >= 2 THEN {r \in db.alerts : r.user_id # u} ELSE db.alerts,
     history |-> IF n >= 3 THEN {r \in db.history : r.user_id # u} ELSE db.history]

deleteUser_NoTransaction(db, u, failAt) ==
    IF failAt = 0 THEN DeleteStatements(db, u, 4) ELSE DeleteStatements(db, u, failAt - 1)

\* deleteUser: the four DELETEs run inside db.transaction(); when statement
\* failAt throws (0: none does) the transaction is rolled back
deleteUser(db, u, failAt) ==
    IF failAt = 0 THEN DeleteStatements(db, u, 4) ELSE db

RowCount(db) == Cardinality(db.users) + Cardinality(db.subscriptions)
                    + Cardinality(db.alerts) + Cardinality(db.history)

NoOp == [op |-> "none", user |-> 0, days |-> 0, count |-> 0, ok |-> TRUE]

Op(name, u) == [op |-> name, user |-> u, days |-> 0, count |-> 0, ok |-> TRUE]

StoreInit ==
    /\ users = {}
    /\ subscription_rows = {}
    /\ alert_rows = {}
    /\ history_rows = {}
    /\ next_id = 1
    /\ clock = 8
    /\ lastOp = NoOp

\* createUser: INSERT OR REPLACE INTO users
StoreCreateUser(u) ==
    /\ users' = users \cup {u}
    /\ lastOp' = Op("createUser", u)
    /\ UNCHANGED <<subscription_rows, alert_rows, history_rows, next_id, clock>>
    /\ UNCHANGED nonStoreVars

StoreAddSubscription(u, ty, act) ==
    /\ next_id <= MaxRowId
    /\ subscription_rows' = addSubscription(subscription_rows, next_id,
            [user_id |-> u, subscription_type |-> ty, is_active |-> act])
    /\ next_id' = next_id + 1
    /\ lastOp' = Op("addSubscription", u)
    /\ UNCHANGED <<users, alert_rows, history_rows, clock>>
    /\ UNCHANGED nonStoreVars

StoreUpdateSubscription(u, ty, updates) ==
    /\ subscription_rows' = updateSubscription(subscription_rows, u, ty, updates)
    /\ lastOp' = Op("updateSubscription", u)
    /\ UNCHANGED <<users, alert_rows, history_rows, next_id, clock>>
    /\ UNCHANGED nonStoreVars

StoreRemoveSubscription(u, ty) ==
    /\ subscription_rows' = removeSubscription(subscription_rows, u, ty)
    /\ lastOp' = Op("removeSubscription", u)
    /\ UNCHANGED <<users, alert_rows, history_rows, next_id, clock>>
    /\ UNCHANGED nonStoreVars

\* createAlert: INSERT INTO price_alerts with a generated id
StoreCreateAlert(u) ==
    /\ next_id <= MaxRowId
    /\ alert_rows' = alert_rows \cup {[id |-> next_id, user_id |-> u]}
    /\ next_id' = next_id + 1
    /\ lastOp' = Op("createAlert", u)
    /\ UNCHANGED <<users, subscription_rows, history_rows, clock>>
    /\ UNCHANGED nonStoreVars

\* addRecord: INSERT INTO push_history with a generated id and timestamp = now
StoreAddRecord(u) ==
    /\ next_id <= MaxRowId
    /\ history_rows' = history_rows \cup
            {[id |-> next_id, user_id |-> u, timestamp |-> ToISO(clock)]}
    /\ next_id' = next_id + 1
    /\ lastOp' = Op("addRecord", u)
    /\ UNCHANGED <<users, subscription_rows, alert_rows, clock>>
    /\ UNCHANGED nonStoreVars

\* cleanOldRecords(daysToKeep) returns result.changes
StoreCleanOldRecords(d) ==
    /\ history_rows' = cleanOldRecords(history_rows, clock, d)
    /\ lastOp' = [op |-> "cleanOldRecords", user |-> 0, days |-> d,
                  count |-> Cardinality(history_rows) - Cardinality(history_rows'),
                  ok |-> TRUE]
    /\ UNCHANGED <<users, subscription_rows, alert_rows, next_id, clock>>
    /\ UNCHANGED nonStoreVars

\* deleteUser(u): the transaction commits, or one of its statements throws
StoreDeleteUser(u) ==
    /\ \E failAt \in 0..4 :
         LET db == deleteUser(Tables, u, failAt)
         IN /\ users' = db.users
            /\ subscription_rows' = db.subscriptions
            /\ alert_rows' = db.alerts
            /\ history_rows' = db.history
            /\ lastOp' = [op |-> "deleteUser", user |-> u, days |-> 0,
                          count |-> RowCount(Tables) - RowCount(db), ok |-> failAt = 0]
    /\ UNCHANGED <<next_id, clock>>
    /\ UNCHANGED nonStoreVars

StoreTick ==
    /\ clock < MaxClock
    /\ clock' = clock + 1
    /\ lastOp' = NoOp
    /\ UNCHANGED <<users, subscription_rows, alert_rows, history_rows, next_id>>
    /\ UNCHANGED nonStoreVars

\* push history: records are added as time passes and old ones are cleaned
HistoryNext ==
    \/ \E u \in StoreUsers : StoreAddRecord(u)
    \/ \E d \in RetentionDays : StoreCleanOldRecords(d)
    \/ \E u \in StoreUsers, ty \in SubTypes : StoreAddSubscription(u, ty, TRUE)
    \/ StoreTick

\* the subscription commands
SubsNext ==
    \/ \E u \in StoreUsers, ty \in SubTypes, act \in BOOLEAN : StoreAddSubscription(u, ty, act)
    \/ \E u \in StoreUsers, ty \in SubTypes, up \in SubUpdates : StoreUpdateSubscription(u, ty, up)
    \/ \E u \in StoreUsers, ty \in SubTypes : StoreRemoveSubscription(u, ty)

\* users with their rows, and their deletion
DeleteNext ==
    \/ \E u \in StoreUsers : StoreCreateUser(u)
    \/ \E u \in StoreUsers : StoreAddSubscription(u, "trending_coins", TRUE)
    \/ \E u \in StoreUsers : StoreCreateAlert(u)
    \/ \E u \in StoreUsers : StoreAddRecord(u)
    \/ \E u \in StoreUsers : StoreDeleteUser(u)

----------------------------------------------------------------------------
(* The /subscribe and /unsubscribe commands (handleSubscribe, handleUnsubscribe) *)

\* the messages whose handlers may be in progress at the same time
Cmds == {"m1", "m2"}

\* msg.from.id of the messages
CmdUser == 1

\* the values createUser may be given for user.max_subscriptions
CapValues == 1 .. Cardinality(SubTypes)

\* getUserSubscriptions: SELECT * FROM subscriptions WHERE user_id = ?
getUserSubscriptions(rows, u) == {r \in rows : r.user_id = u}

\* the subscription_type column of the rows read
TypesOf(rows) == {r.subscription_type : r \in rows}

\* subscribe.ts line 32: existingSubscriptions.length >= user.max_subscriptions
CapReached(subs, cap) == Cardinality(subs) >= cap

CmdInit ==
    /\ max_subscriptions = 0
    /\ mPc = [m \in Cmds |-> "idle"]
    /\ mKind = [m \in Cmds |-> "none"]
    /\ mType = [m \in Cmds |-> "none"]
    /\ mUser = [m \in Cmds |-> 0]
    /\ mSubs = [m \in Cmds |-> {}]
    /\ mCount = 0

\* /start for a user without a row: createUser with the max_subscriptions it is given
CmdCreateUser(cap) ==
    /\ CmdUser \notin users
    /\ users' = users \cup {CmdUser}
    /\ max_subscriptions' = cap
    /\ UNCHANGED <<subscription_rows, alert_rows, history_rows, next_id, clock, lastOp>>
    /\ UNCHANGED <<mPc, mKind, mType, mUser, mSubs, mCount>>
    /\ UNCHANGED nonCmdVars

\* handleSubscribe up to its first await: db.getUser(userId) has read the row
HandleSubscribe(m, ty) ==
    /\ mPc[m] = "idle"
    /\ mCount < MaxCommands
    /\ mCount' = mCount + 1
    /\ mKind' = [mKind EXCEPT ![m] = "subscribe"]
    /\ mType' = [mType EXCEPT ![m] = ty]
    /\ mUser' = [mUser EXCEPT ![m] = IF CmdUser \in users THEN max_subscriptions ELSE 0]
    /\ mPc' = [mPc EXCEPT ![m] = "gotUser"]
    /\ UNCHANGED <<max_subscriptions, mSubs>>
    /\ UNCHANGED storeVars
    /\ UNCHANGED nonCmdVars

\* lines 25-31: no user -> reply and return; else db.getUserSubscriptions(userId) reads the rows
SubscribeGotUser(m) ==
    /\ mPc[m] = "gotUser"
    /\ IF mUser[m] = 0
         THEN /\ mPc' = [mPc EXCEPT ![m] = "reply"]
              /\ UNCHANGED mSubs
         ELSE /\ mSubs' = [mSubs EXCEPT
                    ![m] = TypesOf(getUserSubscriptions(subscription_rows, CmdUser))]
              /\ mPc' = [mPc EXCEPT ![m] = "gotSubs"]
    /\ UNCHANGED <<max_subscriptions, mKind, mType, mUser, mCount>>
    /\ UNCHANGED storeVars
    /\ UNCHANGED nonCmdVars

\* lines 32-71: the cap and the duplicate are tested on the rows read before the await,
\* then db.addSubscription writes
SubscribeGotSubs(m) ==
    /\ mPc[m] = "gotSubs"
    /\ mKind[m] = "subscribe"
    /\ next_id <= MaxRowId
    /\ IF CapReached(mSubs[m], mUser[m]) \/ mType[m] \in mSubs[m]
         THEN UNCHANGED <<subscription_rows, next_id>>
         ELSE /\ subscription_rows' = addSubscription(subscription_rows, next_id,
                    [user_id |-> CmdUser, subscription_type |-> mType[m], is_active |-> TRUE])
              /\ next_id' = next_id + 1
    /\ mPc' = [mPc EXCEPT ![m] = "reply"]
    /\ UNCHANGED <<users, alert_rows, history_rows, clock, lastOp>>
    /\ UNCHANGED <<max_subscriptions, mKind, mType, mUser, mSubs, mCount>>
    /\ UNCHANGED nonCmdVars

\* handleUnsubscribe up to its first await: db.getUserSubscriptions(userId) has read the rows
HandleUnsubscribe(m, ty) ==
    /\ mPc[m] = "idle"
    /\ mCount < MaxCommands
    /\ mCount' = mCount + 1
    /\ mKind' = [mKind EXCEPT ![m] = "unsubscribe"]
    /\ mType' = [mType EXCEPT ![m] = ty]
    /\ mSubs' = [mSubs EXCEPT ![m] = TypesOf(getUserSubscriptions(subscription_rows, CmdUser))]
    /\ mPc' = [mPc EXCEPT ![m] = "gotSubs"]
    /\ UNCHANGED <<max_subscriptions, mUser>>
    /\ UNCHANGED storeVars
    /\ UNCHANGED nonCmdVars

\* unsubscribe.ts lines 26-57: nothing held or type not held -> reply; else db.removeSubscription
UnsubscribeGotSubs(m) ==
    /\ mPc[m] = "gotSubs"
    /\ mKind[m] = "unsubscribe"
    /\ subscription_rows' =
            IF mType[m] \in mSubs[m]
              THEN removeSubscription(subscription_rows, CmdUser, mType[m])
              ELSE subscription_rows
    /\ mPc' = [mPc EXCEPT ![m] = "reply"]
    /\ UNCHANGED <<users, alert_rows, history_rows, next_id, clock, lastOp>>
    /\ UNCHANGED <<max_subscriptions, mKind, mType, mUser, mSubs, mCount>>
    /\ UNCHANGED nonCmdVars

\* the closing bot.sendMessage of either handler
CmdReply(m) ==
    /\ mPc[m] = "reply"
    /\ mPc' = [mPc EXCEPT ![m] = "idle"]
    /\ mKind' = [mKind EXCEPT ![m] = "none"]
    /\ mType' = [mType EXCEPT ![m] = "none"]
    /\ mUser' = [mUser EXCEPT ![m] = 0]
    /\ mSubs' = [mSubs EXCEPT ![m] = {}]
    /\ UNCHANGED <<max_subscriptions, mCount>>
    /\ UNCHANGED storeVars
    /\ UNCHANGED nonCmdVars

CmdNext ==
    \/ \E cap \in CapValues : CmdCreateUser(cap)
    \/ \E m \in Cmds, ty \in SubTypes : HandleSubscribe(m, ty)
    \/ \E m \in Cmds : SubscribeGotUser(m)
    \/ \E m \in Cmds : SubscribeGotSubs(m)
    \/ \E m \in Cmds, ty \in SubTypes : HandleUnsubscribe(m, ty)
    \/ \E m \in Cmds : UnsubscribeGotSubs(m)
    \/ \E m \in Cmds : CmdReply(m)

----------------------------------------------------------------------------
(* Funding rates: PriceComparisonService.getAllFundingRates                 *)

\* funding rates an exchange may report
FundingValues == {-1, 0, 1}

RatePending == [status |-> "pending", present |-> FALSE, funding_rate |-> 0]

\* the settled results of get<Exchange>FundingRate: a FundingRate object, null,
\* or a rejection
RateResults ==
    {[status |-> "fulfilled", present |-> TRUE, funding_rate |-> v] : v \in FundingValues}
        \cup {[status |-> "fulfilled", present |-> FALSE, funding_rate |-> 0],
              [status |-> "rejected", present |-> FALSE, funding_rate |-> 0]}

RateKept_NonZero(result) ==
    result.status = "fulfilled" /\ result.present /\ result.funding_rate # 0

\* lines 347-348: result.status === 'fulfilled' && result.value
RateKept(result) == result.status = "fulfilled" /\ result.present

RECURSIVE CollectRates(_, _)
\* lines 345-358: results.forEach pushes the kept values, in the order of ratePromises
CollectRates(res, n) ==
    IF n = 0 THEN <<>>
    ELSE LET e == Exchanges[n]
         IN IF RateKept(res[e])
            THEN Append(CollectRates(res, n - 1),
                        [exchange |-> e, funding_rate |-> res[e].funding_rate])
            ELSE CollectRates(res, n - 1)

getAllFundingRates(res) == CollectRates(res, Len(Exchanges))

FundInit ==
    /\ rPc = "idle"
    /\ rateRes = [e \in ExchangeSet |-> RatePending]
    /\ fundingRates = <<>>

\* getAllFundingRates is called: the three fetches are started
FundingStart ==
    /\ rPc = "idle"
    /\ rPc' = "fetching"
    /\ rateRes' = [e \in ExchangeSet |-> RatePending]
    /\ fundingRates' = <<>>
    /\ UNCHANGED nonFundVars

\* one exchange's funding rate fetch settles
RateSettles(e) ==
    /\ rPc = "fetching"
    /\ rateRes[e] = RatePending
    /\ \E q \in RateResults : rateRes' = [rateRes EXCEPT ![e] = q]
    /\ UNCHANGED <<rPc, fundingRates>>
    /\ UNCHANGED nonFundVars

\* Promise.allSettled resolves once no fetch is pending; the array is returned
FundingReturns ==
    /\ rPc = "fetching"
    /\ \A e \in ExchangeSet : rateRes[e] # RatePending
    /\ fundingRates' = getAllFundingRates(rateRes)
    /\ rPc' = "returned"
    /\ UNCHANGED rateRes
    /\ UNCHANGED nonFundVars

\* the caller has taken the array
FundingTaken ==
    /\ rPc = "returned"
    /\ rPc' = "idle"
    /\ UNCHANGED <<rateRes, fundingRates>>
    /\ UNCHANGED nonFundVars

FundNext ==
    \/ FundingStart
    \/ \E e \in ExchangeSet : RateSettles(e)
    \/ FundingReturns
    \/ FundingTaken

----------------------------------------------------------------------------
(* Specifications *)

Init == SchedInit /\ RateInit /\ PushIdle /\ AlertIdle /\ CmpInit /\ FetchInit /\ StoreInit
            /\ CmdInit /\ FundInit /\ TryInit /\ ProcInit

Next == SchedNext({"T1", "T2"})

\* the scheduler: cron firings, handler outcomes and the task management methods
Spec == Init /\ [][Next]_vars

NextRate == RateNext(Callers)

\* the rate limiters under concurrent fetches
SpecRate == Init /\ [][NextRate]_vars

InitPush == SchedInit /\ RateInit /\ PushInit /\ AlertIdle /\ CmpInit /\ FetchInit /\ StoreInit
            /\ CmdInit /\ FundInit /\ TryInit /\ ProcInit

\* one execution at a time of the trending push job, from the cron firing to
\* the TaskResult, over any subscriptions table
SpecPush == InitPush /\ [][PushNext]_vars

NextPushLive ==
    \/ PushNext
    \/ \E u \in Users, st \in SubStates : SubscriptionChange(u, st)

\* the trending push job while users change their subscriptions
SpecPushLive == Init /\ [][NextPushLive]_vars

InitAlert == SchedInit /\ RateInit /\ PushIdle /\ AlertInit /\ CmpInit /\ FetchInit /\ StoreInit
            /\ CmdInit /\ FundInit /\ TryInit /\ ProcInit

NextAlert == AlertNext(Runs)

\* runs of the alert evaluator, possibly overlapping, over any two alerts
SpecAlert == InitAlert /\ [][NextAlert]_vars

NextAlertOne == AlertNext({"r1"})

\* runs of the alert evaluator one after another, over any two alerts
SpecAlertOne == InitAlert /\ [][NextAlertOne]_vars

NextAlertStore ==
    \/ AlertNext({"r1"})
    \/ \E a \in AlertIds, u \in AlertUpdates : UpdateAlert(a, u)

\* runs of the evaluator one after another, with updateAlert calls in between
SpecAlertStore == InitAlert /\ [][NextAlertStore]_vars

\* one execution of the price comparison push job over its three symbols
SpecCompare == Init /\ [][CmpNext]_vars

NextRateSeq == RateNext({"f1"})

\* the rate limiters under one caller that acquires strictly one after another
SpecRateSeq == Init /\ [][NextRateSeq]_vars

NextReplaceFail ==
    \/ \E k \in 1..MaxTimers : CronFire(k)
    \/ \E t \in TaskObjs : HandlerReturns(t)
    \/ \E t \in TaskObjs : HandlerThrows(t)
    \/ \E t \in {"T1", "T3"} : ScheduleTask(t)

\* a job id registered again with another definition while executions of the
\* earlier definition are in flight and may fail
SpecReplaceFail == Init /\ [][NextReplaceFail]_vars

NextShutdown ==
    \/ \E k \in 1..MaxTimers : ~exited /\ CronFire(k)
    \/ \E t \in TaskObjs : ~exited /\ HandlerReturns(t)
    \/ \E t \in TaskObjs : ~exited /\ HandlerThrows(t)
    \/ \E id \in JobIds : ~exited /\ PauseTask(id)
    \/ \E id \in JobIds : ~exited /\ ResumeTask(id)
    \/ Shutdown

\* the application from its start to its shutdown on a signal: after
\* process.exit no continuation runs
SpecShutdown == Init /\ [][NextShutdown]_vars

\* acquires begin while the clock's horizon leaves room for a whole window
NextRateLive ==
    \/ \E c \in Callers, s \in Sources : now + requestWindow <= MaxTime /\ CheckRateLimit(c, s)
    \/ \E c \in Callers : WakeUp(c)
    \/ \E c \in Callers : IncrementRequestCount(c)
    \/ Tick

\* the rate limiters on an event loop: time passes, a due timer fires and a
\* resolved await is continued
SpecRateLive ==
    /\ Init /\ [][NextRateLive]_vars
    /\ WF_vars(Tick)
    /\ \A c \in Callers : WF_vars(WakeUp(c)) /\ WF_vars(IncrementRequestCount(c))

NextReplace ==
    \/ \E k \in 1..MaxTimers : CronFire(k)
    \/ \E t \in TaskObjs : HandlerReturns(t)
    \/ \E t \in TaskObjs : ScheduleTask(t)
    \/ \E id \in JobIds : UnscheduleTask(id)
    \/ \E id \in JobIds : PauseTask(id)
    \/ \E id \in JobIds : ResumeTask(id)
    \/ Stop

\* the registry operations of the scheduler, with scheduleTask also called for
\* a second job definition under an id that is already registered, and
\* handlers that return
SpecReplace == Init /\ [][NextReplace]_vars

SpecHistory == Init /\ [][HistoryNext]_vars

SpecSubs == Init /\ [][SubsNext]_vars

SpecDelete == Init /\ [][DeleteNext]_vars

\* fetches of the four source clients, one per client at a time
\* overlapping /subscribe and /unsubscribe commands of one user
SpecCommands == Init /\ [][CmdNext]_vars

\* calls of getAllFundingRates over every combination of settled fetches
SpecFunding == Init /\ [][FundNext]_vars

SpecFetch == Init /\ [][FetchNext]_vars

NextTry == TryNext({"f1"})

\* fetches one after another with their retries, each attempt through the
\* limiter of its source
SpecTry == Init /\ [][NextTry]_vars

----------------------------------------------------------------------------
(* Claims about the scheduler *)

RegisteredTimer(id) == timers[tasks[id]]

\* this step is the catch/finally of a rejected handler of t
FailStep(t) == inFlight'[t] < inFlight[t] /\ consecFails'[t] > 0

\* this step starts an execution of t's handler
StartStep(t) == inFlight'[t] > inFlight[t]

\* C1: the number of handler executions in flight never exceeds
\* max_concurrent_jobs (the ceiling check and the registration as running
\* act as one check-and-increment over the executions).
C1_InFlightWithinCeiling == InFlightTotal <= max_concurrent_jobs

C7_HandlerErrorCaught ==
    [][\A t \in TaskObjs :
          FailStep(t) =>
             /\ lastResult' = [success |-> FALSE, error |-> "handler error"]
             /\ error_count'[t] = error_count[t] + 1
             /\ TaskId(t) \notin runningTasks'
             /\ ~escaped']_vars

C7_Witness ==
    /\ lastResult = [success |-> FALSE, error |-> "handler error"]
    /\ error_count["T1"] = 1
    /\ inFlight["T1"] = 0
    /\ ~escaped

\* timer k is the one the registry holds for some id
Registered(k) == \E id \in JobIds : tasks[id] = k

\* C14: scheduleTask for a registered id stops and destroys the old timer and
\* registers the new one, so the timers that are not destroyed are exactly the
\* registry's (one per registered id, none after unscheduleTask), a destroyed
\* timer stays destroyed, and an execution only starts from the running timer
\* that the registry holds for the job.
C14_ReplaceLeavesOneTimer ==
    /\ [](\A k \in DOMAIN timers : timers[k].status # "destroyed" <=> Registered(k))
    /\ [](\A id \in JobIds : tasks[id] # 0 => TaskId(timers[tasks[id]].task) = id)
    /\ [][\A k \in DOMAIN timers :
            timers[k].status = "destroyed" => timers'[k].status = "destroyed"]_vars
    /\ [][\A id \in JobIds : (tasks[id] # 0 /\ tasks'[id] # tasks[id])
            => timers'[tasks[id]].status = "destroyed"]_vars
    /\ [][\A t \in TaskObjs : StartStep(t) =>
            \E id \in JobIds : /\ tasks[id] # 0
                                /\ timers[tasks[id]].task = t
                                /\ timers[tasks[id]].status = "running"]_vars

\* the job was replaced by a second definition: the first timer is destroyed,
\* the registry holds the new one, and the new definition is executing
C14_Witness ==
    /\ Len(timers) = 3
    /\ timers[1].status = "destroyed"
    /\ tasks[TaskId("T1")] = 3
    /\ timers[3].task = "T3"
    /\ inFlight["T3"] > 0
    /\ inFlight["T1"] = 0

----------------------------------------------------------------------------
(* Claims about the rate limiters *)

\* C3: under concurrent fetches on one source, the number of requests admitted
\* within one window never exceeds the source's limit.
C3_AdmittedWithinLimit == \A s \in Sources : winAdmits[s] <= rateLimit(s)

\* C4: for a single caller acquiring one after another, within one window at
\* most rateLimit acquires return without suspending, and the stored count
\* never exceeds the limit.
C4_SequentialWithinLimit ==
    \A s \in Sources : /\ winImmediate[s] <= rateLimit(s)
                        /\ requestCounts[s] <= rateLimit(s)

\* the limit was used up in a window, the next acquire slept and was admitted
\* into the following window
C4_Witness ==
    /\ now >= requestWindow
    /\ winStart["binance"] >= requestWindow
    /\ winAdmits["binance"] = rateLimit("binance")
    /\ winImmediate["binance"] = rateLimit("binance") - 1
    /\ requestCounts["binance"] = rateLimit("binance")

----------------------------------------------------------------------------
(* Claims about the broadcast *)

\* the broadcast of the running job has loaded its list and left its loop
BroadcastDone == hPc = "returned" /\ bIdx >= 1

SomeSendFailed == \E i \in DOMAIN sendLog : ~sendLog[i]

\* C5: one broadcast over N active subscribers attempts exactly one send per
\* subscriber and writes exactly N PushRecords, the i-th for the i-th
\* subscriber with success = outcome of the i-th send and the send's error
\* text when it failed (the store itself working); a failed send does not stop
\* the later sends.
C5_OneRecordPerSubscriber ==
    (BroadcastDone /\ ~storeFailed) =>
        /\ bList = getActiveSubscriptions(subscriptions)
        /\ Len(sendLog) = Len(bList)
        /\ Len(push_history) = bStart + Len(bList)
        /\ \A i \in DOMAIN bList :
              push_history[bStart + i] =
                  [user_id |-> bList[i], success |-> sendLog[i],
                   error_message |-> IF sendLog[i] THEN "none" ELSE "send error"]

\* 3 subscribers, the 2nd send fails: records (success, failure, success)
C5_Witness ==
    /\ BroadcastDone
    /\ ~storeFailed
    /\ Len(bList) = 3
    /\ sendLog = <<TRUE, FALSE, TRUE>>
    /\ Len(push_history) = bStart + 3
    /\ ~push_history[bStart + 2].success

\* C8: a failed send during a broadcast is not surfaced to the job: the
\* handler does not throw, and the enclosing execution completes with a
\* success TaskResult and an unchanged error_count.
C8_SendFailureNotSurfaced ==
    /\ [](SomeSendFailed => hPc # "threw")
    /\ [][(SomeSendFailed /\ inFlight'[PushTask] < inFlight[PushTask])
            => /\ lastResult' = [success |-> TRUE, error |-> "none"]
               /\ error_count' = error_count]_vars

\* an execution whose broadcast had a failed send has completed as a success
C8_Witness ==
    /\ hPc = "idle"
    /\ inFlight[PushTask] = 0
    /\ \E i \in DOMAIN push_history : push_history[i].error_message = "send error"
    /\ lastResult = [success |-> TRUE, error |-> "none"]
    /\ error_count[PushTask] = 0

\* C17: a broadcast sends only to the users whose subscription of the
\* category was active when the list was loaded, and writes PushRecords only
\* for them: paused and removed subscriptions and subscriptions of other
\* categories get no message and no record, whatever changes afterwards.
C17_OnlyActiveOfCategory ==
    /\ \A i \in DOMAIN recipients : loadedFrom[recipients[i]] = "active"
    /\ bIdx >= 1 =>
          \A j \in (bStart + 1)..Len(push_history) :
              loadedFrom[push_history[j].user_id] = "active"
    /\ \A u \in Users : loadedFrom[u] # "active" =>
          \A i \in DOMAIN recipients : recipients[i] # u

\* user 1 had paused the subscription when the list was loaded: the broadcast
\* ended with sends and records for the others only
C17_Witness ==
    /\ BroadcastDone
    /\ ~storeFailed
    /\ loadedFrom[1] = "paused"
    /\ Len(recipients) = MaxSubscribers - 1
    /\ \A i \in DOMAIN recipients : recipients[i] # 1
    /\ Len(push_history) = bStart + MaxSubscribers - 1
    /\ \A j \in (bStart + 1)..Len(push_history) : push_history[j].user_id # 1

\* C13: whenever a store operation fails inside a scheduled job, the failure
\* reaches executeTask and the execution is counted as a failure of the job
\* (failure TaskResult, error_count incremented).
C13_StoreFailureCounted ==
    [][(storeFailed /\ inFlight'[PushTask] < inFlight[PushTask])
          => /\ ~lastResult'.success
             /\ error_count'[PushTask] = error_count[PushTask] + 1]_vars

----------------------------------------------------------------------------
(* Claims about the alert evaluator *)

\* C6: over any sequence of evaluator runs, each price alert produces at most
\* one notification and is marked triggered at most once.
C6_AtMostOneNotification ==
    \A a \in AlertIds : notified[a] <= 1 /\ triggerCount[a] <= 1

\* C15: the triggered flag of an alert is monotonic: no store operation
\* (triggerAlert, updateAlert) and no evaluator run sets it back to false, and
\* a triggered alert is never loaded by getActiveAlerts again.
C15_TriggeredIsMonotonic ==
    /\ [][\A a \in AlertIds : price_alerts[a].triggered => price_alerts'[a].triggered]_vars
    /\ [][\A a \in AlertIds, r \in Runs :
            (triggerCount[a] > 0 /\ alerts[r] = <<>>) =>
                \A i \in DOMAIN alerts'[r] : alerts'[r][i] # a]_vars

\* this step is run r testing the alert at its position
EvalStep(r) == aPc[r] = "eval" /\ (aPc'[r] # "eval" \/ aIdx'[r] # aIdx[r])

\* C16: the evaluator treats an alert as matching the fetched price p iff
\* (condition = above and p >= target) or (condition = below and p <= target);
\* below/100 matches at 99 and does not match at 101.
C16_MatchIffConditionMet ==
    [][\A r \in Runs : EvalStep(r) =>
          LET al == price_alerts[symbolAlerts(r)[aIdx[r]]]
              p == currentPrice[r]
              matched == aPc'[r] = "send"
          IN /\ matched <=> \/ (al.condition = "above" /\ p >= al.target_price)
                             \/ (al.condition = "below" /\ p <= al.target_price)
             /\ (al.condition = "below" /\ al.target_price = 100 /\ p = 99) => matched
             /\ (al.condition = "below" /\ al.target_price = 100 /\ p = 101) => ~matched]_vars

\* an above-alert was found matching at a price equal to its target
C16_Witness ==
    /\ aPc["r1"] = "send"
    /\ currentPrice["r1"] = 100
    /\ price_alerts[symbolAlerts("r1")[aIdx["r1"]]].condition = "above"
    /\ price_alerts[symbolAlerts("r1")[aIdx["r1"]]].target_price = 100

----------------------------------------------------------------------------
(* Claims about the price comparison *)

\* the successful quotes of the current symbol, from the settled fetches
Successful == {e \in ExchangeSet : fetchRes[e].status = "fulfilled"}

MinPrice == CHOOSE p \in {fetchRes[e].price : e \in Successful} :
                \A e \in Successful : p <= fetchRes[e].price

MaxPrice == CHOOSE p \in {fetchRes[e].price : e \in Successful} :
                \A e \in Successful : p >= fetchRes[e].price

\* comparePrices has returned for the current symbol
Compared == cPc \in {"compared", "broadcast", "sleep"}

\* C9: for a non-empty set of successful quotes comparePrices returns a
\* comparison listing exactly the successful quotes, with best_price the
\* minimum, worst_price the maximum, price_difference = worst - best and
\* price_difference_percentage = price_difference / best * 100 (prices 100 and
\* 105 with one failed source give 100, 105, 5, 5 and 2 quotes).
C9_ComparisonOfSuccessfulQuotes ==
    (Compared /\ Successful # {}) =>
        /\ comparison.present
        /\ Len(comparison.prices) = Cardinality(Successful)
        /\ \A i \in DOMAIN comparison.prices :
              LET q == comparison.prices[i]
              IN /\ q.exchange \in Successful
                 /\ q.price = fetchRes[q.exchange].price
                 /\ comparison.best_price.price <= q.price
                 /\ q.price <= comparison.worst_price.price
                 /\ \A j \in DOMAIN comparison.prices :
                       i # j => comparison.prices[j].exchange # q.exchange
        /\ comparison.best_price.price = MinPrice
        /\ comparison.worst_price.price = MaxPrice
        /\ comparison.price_difference = MaxPrice - MinPrice
        /\ comparison.price_difference_percentage.num * MinPrice
              = (MaxPrice - MinPrice) * 100 * comparison.price_difference_percentage.den
        /\ ({fetchRes[e].price : e \in Successful} = {100, 105} /\ Cardinality(Successful) = 2)
              => /\ comparison.price_difference = 5
                 /\ RatEq(comparison.price_difference_percentage, RatDiv(5, 1))

\* one source failed, the two others returned 100 and 105
C9_Witness ==
    /\ Compared
    /\ Cardinality(Successful) = 2
    /\ comparison.present
    /\ comparison.best_price.price = 100
    /\ comparison.worst_price.price = 105
    /\ comparison.price_difference = 5
    /\ Len(comparison.prices) = 2

\* C10: when every source fetch fails comparePrices returns the absent
\* comparison, and the job skips that symbol without sending anything.
C10_AllFailedIsAbsent ==
    /\ (Compared /\ Successful = {}) => (~comparison.present /\ cPc = "compared")
    /\ \A i \in cSkipped : cSent[i] = 0
    /\ (cPc = "compared" /\ Successful = {}) => cSent[cSym] = 0

\* the first symbol had no quote and was skipped, the loop went on
C10_Witness ==
    /\ 1 \in cSkipped
    /\ cSent[1] = 0
    /\ cSym = 2

----------------------------------------------------------------------------
(* Claims about the source clients *)

ExchangeClients == {"binance", "okx", "bybit"}

\* C11: the per-exchange fetch operations (price and funding rate) never
\* raise: every failure, a 429 turned into RateLimitError and exhausted
\* retries included, resolves to null for the caller.
C11_ExchangeFetchNeverRaises ==
    \A c \in ExchangeClients :
        /\ qOut[c] # "raised"
        /\ (qPc[c] = "done" /\ qErr[c] # "none" /\ qOut[c] # "value") => qOut[c] = "null"
        /\ (qPc[c] = "done" /\ qErr[c] = "RateLimitError"
              /\ qAttempt[c] = MaxAttempts(c) /\ qOut[c] # "value") => qOut[c] = "null"

\* every attempt of a funding-rate fetch got a 429; the caller received null
C11_Witness ==
    /\ qPc["okx"] = "done"
    /\ qOp["okx"] = "fundingRate"
    /\ qAttempt["okx"] = MaxAttempts("okx")
    /\ qErr["okx"] = "RateLimitError"
    /\ qOut["okx"] = "null"

\* C12: a transient or rate-limit failure of a CoinGecko operation, after its
\* retries are exhausted, resolves to an absent result and is not raised to
\* the calling job.
C12_CoinGeckoFailureIsAbsent == qOut["coingecko"] # "raised"

----------------------------------------------------------------------------
(* Claims about the store *)

\* the time a push record's timestamp text stands for
TimeOf(r) == r.timestamp[1] * 10 + r.timestamp[2]

\* C18: cleanOldRecords(d) deletes exactly the push records whose timestamp is
\* strictly older than now - d days, keeps every record at or after the
\* cutoff, changes no other table and returns the number of records deleted.
C18_CleanDeletesOlderOnly ==
    [][lastOp'.op = "cleanOldRecords" =>
          LET cutoff == clock - lastOp'.days * DayTicks
          IN /\ history_rows' = {r \in history_rows : TimeOf(r) >= cutoff}
             /\ lastOp'.count = Cardinality({r \in history_rows : TimeOf(r) < cutoff})
             /\ UNCHANGED <<users, subscription_rows, alert_rows>>]_vars

\* a cleaning with one day of retention removed one record and kept a record
\* written exactly at the cutoff, next to a subscription row
C18_Witness ==
    /\ lastOp.op = "cleanOldRecords"
    /\ lastOp.days = 1
    /\ lastOp.count = 1
    /\ \E r \in history_rows : TimeOf(r) = clock - DayTicks
    /\ subscription_rows # {}

\* C19: the store holds at most one subscription per (user_id,
\* subscription_type) after any sequence of addSubscription, updateSubscription
\* and removeSubscription; addSubscription for an existing pair leaves the new
\* row as the only row of the pair and the other pairs' rows as they were.
C19_UniquePerUserAndType ==
    /\ [](\A r1, r2 \in subscription_rows :
            (r1.user_id = r2.user_id /\ r1.subscription_type = r2.subscription_type)
                => r1 = r2)
    /\ [][next_id' > next_id =>
            \E r \in subscription_rows' :
                /\ r.id = next_id
                /\ \A q \in subscription_rows' :
                      (q.user_id = r.user_id /\ q.subscription_type = r.subscription_type)
                          => q = r
                /\ \A q \in subscription_rows :
                      (q.user_id # r.user_id \/ q.subscription_type # r.subscription_type)
                          => q \in subscription_rows']_vars

\* the pair (1, trending_coins) was added twice: one row, the second one
C19_Witness ==
    /\ lastOp.op = "addSubscription"
    /\ next_id = 3
    /\ subscription_rows = {[id |-> 2, user_id |-> 1,
                             subscription_type |-> "trending_coins", is_active |-> FALSE]}

\* C20: deleteUser(u) removes the user row and every subscription, alert and
\* push record of u in one step, leaving the other users' rows; when it fails
\* nothing is removed.
C20_DeleteUserAtomic ==
    [][lastOp'.op = "deleteUser" =>
          LET u == lastOp'.user
          IN IF lastOp'.ok
             THEN /\ users' = users \ {u}
                  /\ subscription_rows' = {r \in subscription_rows : r.user_id # u}
                  /\ alert_rows' = {r \in alert_rows : r.user_id # u}
                  /\ history_rows' = {r \in history_rows : r.user_id # u}
             ELSE UNCHANGED <<users, subscription_rows, alert_rows, history_rows>>]_vars

\* user 1 had a subscription, an alert and a push record; all four rows went
\* with the deletion and user 2 is still there
C20_Witness ==
    /\ lastOp = [op |-> "deleteUser", user |-> 1, days |-> 0, count |-> 4, ok |-> TRUE]
    /\ users = {2}
    /\ subscription_rows = {}
    /\ alert_rows = {}
    /\ history_rows = {}

----------------------------------------------------------------------------
(* Claims about the subscription commands *)

\* the subscriptions the commanding user holds
Held == getUserSubscriptions(subscription_rows, CmdUser)

----------------------------------------------------------------------------
(* Claims about auto-pause and the skipped firing *)

\* this step is a call of pauseTask from executeTask's catch block for t
PauseCallStep(t) == pauseCalls'[t] > pauseCalls[t]

\* C22: a job is auto-paused only when its most recent max_retries executions
\* all failed; failures separated by a success do not add up to a pause.
C22_PauseOnlyAfterConsecutiveFailures ==
    [][\A t \in TaskObjs : PauseCallStep(t) => consecFails'[t] >= max_retries(t)]_vars

\* this step takes t's failure count from below max_retries to max_retries
ReachesThreshold(t) == error_count[t] < max_retries(t) /\ error_count'[t] >= max_retries(t)

\* C23: pauseTask is invoked exactly once for each time a job's failure count
\* reaches max_retries: at the step that reaches it and at no other.
C23_PauseOncePerBreach ==
    [][\A t \in TaskObjs :
          /\ PauseCallStep(t) <=> ReachesThreshold(t)
          /\ PauseCallStep(t) => pauseCalls'[t] = pauseCalls[t] + 1]_vars

\* this step is a firing that executeTask answered with the skip result
SkipStep ==
    /\ lastResult' # lastResult
    /\ lastResult' = [success |-> FALSE, error |-> "Max concurrent jobs reached"]

\* C24: a firing while the running set holds max_concurrent_jobs ids starts no
\* handler, and the skipped firing leaves error_count, the timers (started or
\* stopped), the registry, the running set and the executions in flight as
\* they were, so the job's timer fires the job again on its next tick.
C24_SkipLeavesStateAlone ==
    /\ [][\A t \in TaskObjs :
            StartStep(t) => Cardinality(runningTasks) < max_concurrent_jobs]_vars
    /\ [][SkipStep => /\ Cardinality(runningTasks) >= max_concurrent_jobs
                      /\ UNCHANGED <<tasks, timers, runningTasks, error_count, inFlight,
                                     escaped, consecFails, autoPaused, pauseCalls>>]_vars

\* both job ids are running, a firing was skipped, and nothing was counted
\* as a failure; the timers are still started
C24_Witness ==
    /\ lastResult = [success |-> FALSE, error |-> "Max concurrent jobs reached"]
    /\ Cardinality(runningTasks) = max_concurrent_jobs
    /\ \A t \in TaskObjs : error_count[t] = 0
    /\ \A id \in JobIds : tasks[id] # 0 /\ RegisteredTimer(id).status = "running"

----------------------------------------------------------------------------
(* Claims about the termination of an acquire *)

\* C25: every acquire returns; a caller that finds the count at the limit
\* sleeps once for the rest of the window (requestWindow - elapsed > 0), then
\* resets the window (count 0, start now) and goes on to consume one slot,
\* without a second sleep for the same request.
C25_AcquireReturns ==
    /\ \A c \in Callers : (callerPc[c] # "idle") ~> (callerPc[c] = "idle")
    /\ [][\A c \in Callers :
            (callerPc[c] = "idle" /\ callerPc'[c] = "sleeping") =>
                /\ wakeAt'[c] > now
                /\ wakeAt'[c] - now = requestWindow - (now - lastResets'[callerSrc'[c]])]_vars
    /\ [][\A c \in Callers :
            callerPc[c] = "sleeping" =>
                \/ callerPc'[c] = "sleeping"
                \/ /\ callerPc'[c] = "inc"
                   /\ now >= wakeAt[c]
                   /\ requestCounts'[callerSrc[c]] = 0
                   /\ lastResets'[callerSrc[c]] = now]_vars
    /\ [][\A c \in Callers :
            callerPc[c] = "inc" =>
                \/ callerPc'[c] = "inc"
                \/ /\ callerPc'[c] = "idle"
                   /\ requestCounts'[callerSrc[c]] = requestCounts[callerSrc[c]] + 1]_vars

\* f1 found binance at its limit, slept to the end of the window and has reset
\* it; its own slot is about to be counted
C25_Witness ==
    /\ callerPc["f1"] = "inc"
    /\ suspended["f1"]
    /\ callerSrc["f1"] = "binance"
    /\ requestCounts["binance"] = 0
    /\ lastResets["binance"] = now
    /\ now >= requestWindow

----------------------------------------------------------------------------
(* Claims about the order and the pacing of a broadcast's sends *)

\* the loop of broadcastToSubscribers is at one of its await points
InLoop == hPc \in {"send", "recOk", "delay", "recFail"}

\* the PushRecords written since the broadcast began
Written == Len(push_history) - bStart

\* C26: the sends of one broadcast are sequential: while the send to the
\* subscription at position i is in flight every earlier send has settled,
\* and the PushRecords of positions 1..i-1, and no others, have been written
\* in that order.
C26_SendsSequential ==
    InLoop =>
        /\ Len(sendLog) = (IF hPc = "send" THEN bIdx - 1 ELSE bIdx)
        /\ Written = (IF hPc = "delay" THEN bIdx ELSE bIdx - 1)
        /\ \A j \in 1..Written : push_history[bStart + j].user_id = bList[j]

\* the third send is in flight; the first failed, the second succeeded, and
\* their two records are in the history in that order
C26_Witness ==
    /\ hPc = "send"
    /\ bIdx = 3
    /\ sendLog = <<FALSE, TRUE>>
    /\ Written = 2
    /\ ~push_history[bStart + 1].success
    /\ push_history[bStart + 2].success

\* C27: between two consecutive sends of one broadcast the pacing delay
\* elapses, whether the earlier send succeeded or failed: every send but the
\* first starts from the delay.
C27_DelayBetweenSends ==
    [][(hPc # "send" /\ hPc' = "send" /\ bIdx' > 1) => hPc = "delay"]_vars

----------------------------------------------------------------------------
(* Claims about a skipped symbol group *)

\* the symbol groups of run r
Groups(r) == GroupKeys(price_alerts, alerts[r])

\* this step is run r leaving a group whose price fetch failed or was empty
FetchSkipStep(r) == aPc[r] = "fetch" /\ aPc'[r] # "eval"

\* C28: a failed or empty price fetch for a symbol group skips that group
\* only: the run goes on to the fetch of the next group with its list intact,
\* or ends as a run ends when the group was the last; nothing is sent or
\* marked for the skipped group, a run visits its groups in order and ends
\* only behind the last one, and a fetched price starts the evaluation of
\* the group's first alert.
C28_SkipsOnlyThatGroup ==
    [][\A r \in Runs :
          /\ FetchSkipStep(r) =>
                /\ IF aGroup[r] < Len(Groups(r))
                     THEN /\ aPc'[r] = "fetch"
                          /\ aGroup'[r] = aGroup[r] + 1
                          /\ alerts'[r] = alerts[r]
                     ELSE aPc'[r] = "idle"
                /\ UNCHANGED <<price_alerts, notified, triggerCount>>
          /\ (aPc[r] # "idle" /\ aGroup'[r] # aGroup[r]) =>
                \/ aGroup'[r] = aGroup[r] + 1
                \/ aPc'[r] = "idle" /\ aGroup[r] = Len(Groups(r))
          /\ (aPc[r] = "fetch" /\ aPc'[r] = "eval") =>
                aGroup'[r] = aGroup[r] /\ aIdx'[r] = 1]_vars

\* the first group of the run was skipped and the alert of the second group
\* was evaluated and found matching
C28_Witness ==
    /\ aSkips["r1"] = 1
    /\ aGroup["r1"] = 2
    /\ aPc["r1"] = "send"
    /\ \A a \in AlertIds : notified[a] = 0

----------------------------------------------------------------------------
(* Claims about ties and about the funding rates *)

\* the first source, in the order of Exchanges, whose successful quote has price p
FirstSourceWith(p) ==
    Exchanges[CHOOSE i \in DOMAIN Exchanges :
                /\ Exchanges[i] \in Successful /\ fetchRes[Exchanges[i]].price = p
                /\ \A j \in 1..(i - 1) :
                      ~(Exchanges[j] \in Successful /\ fetchRes[Exchanges[j]].price = p)]

\* C29: among the successful quotes that share the minimum price best_price
\* is the first in source order, and among those that share the maximum
\* price worst_price is the first in source order.
C29_FirstInSourceOrderWins ==
    (Compared /\ Successful # {}) =>
        /\ comparison.best_price.exchange = FirstSourceWith(MinPrice)
        /\ comparison.worst_price.exchange = FirstSourceWith(MaxPrice)

\* the sources whose funding rate fetch succeeded
RateSucceeded == {e \in ExchangeSet : rateRes[e].status = "fulfilled" /\ rateRes[e].present}

\* position of a source in the order of the fetches
SourceIndex(e) == CHOOSE i \in DOMAIN Exchanges : Exchanges[i] = e

\* C30: getAllFundingRates returns exactly the funding rates of the sources
\* whose fetch succeeded, in source order, and the empty list when every
\* source failed.
C30_RatesOfSucceededSources ==
    rPc = "returned" =>
        /\ {fundingRates[i].exchange : i \in DOMAIN fundingRates} = RateSucceeded
        /\ \A i \in DOMAIN fundingRates :
              fundingRates[i].funding_rate = rateRes[fundingRates[i].exchange].funding_rate
        /\ \A i, j \in DOMAIN fundingRates :
              i < j => SourceIndex(fundingRates[i].exchange) < SourceIndex(fundingRates[j].exchange)
        /\ RateSucceeded = {} => fundingRates = <<>>

\* okx failed; the rates of binance (zero) and bybit are returned in that order
C30_Witness ==
    /\ rPc = "returned"
    /\ rateRes["okx"].status = "rejected"
    /\ fundingRates = <<[exchange |-> "binance", funding_rate |-> 0],
                        [exchange |-> "bybit", funding_rate |-> 1]>>

----------------------------------------------------------------------------
(* Claims about the fan-out and fan-in of comparePrices *)

\* C31: comparePrices starts every per-source fetch before any has settled
\* and returns only when all of them have settled; the quotes it returns are
\* the successful ones in source order whatever the order of completion, and
\* best_price and worst_price are taken from them.
C31_FanOutFanIn ==
    /\ [][(cPc # "fetching" /\ cPc' = "fetching") =>
            \A e \in ExchangeSet : fetchRes'[e] = Pending]_vars
    /\ [][cPc' = "compared" /\ cPc # "compared" =>
            \A e \in ExchangeSet : fetchRes[e] # Pending /\ fetchRes'[e] = fetchRes[e]]_vars
    /\ [](Compared =>
            /\ \A e \in ExchangeSet : fetchRes[e] # Pending
            /\ {comparison.prices[i].exchange : i \in DOMAIN comparison.prices} = Successful
            /\ \A i \in DOMAIN comparison.prices :
                  comparison.prices[i].price = fetchRes[comparison.prices[i].exchange].price
            /\ \A i, j \in DOMAIN comparison.prices :
                  i < j => SourceIndex(comparison.prices[i].exchange)
                              < SourceIndex(comparison.prices[j].exchange)
            /\ comparison.present =>
                  \E i, j \in DOMAIN comparison.prices :
                      /\ comparison.best_price = comparison.prices[i]
                      /\ comparison.worst_price = comparison.prices[j])

\* all three sources answered, with the lowest price in the middle of the
\* source order; the quotes are listed binance, okx, bybit
C31_Witness ==
    /\ Compared
    /\ comparison.prices = <<[exchange |-> "binance", price |-> 110],
                             [exchange |-> "okx", price |-> 100],
                             [exchange |-> "bybit", price |-> 105]>>
    /\ comparison.best_price.exchange = "okx"
    /\ comparison.worst_price.exchange = "binance"

----------------------------------------------------------------------------
(* Claims about resumeTask, the running set and a replaced job *)

\* this step is resumeTask starting the stopped timer registered under id
ResumeStep(id) ==
    /\ tasks[id] # 0
    /\ tasks' = tasks
    /\ timers[tasks[id]].status = "stopped"
    /\ timers'[tasks[id]].status = "running"

\* C32: resumeTask starts the job's timer and leaves every error_count as it
\* is; so each failing execution of a job that has been auto-paused before,
\* the first one after a resume included, calls pauseTask again and the
\* job's registered timer is stopped.
C32_ResumeKeepsErrorCount ==
    /\ [][\A id \in JobIds : ResumeStep(id) => UNCHANGED <<error_count, consecFails>>]_vars
    /\ [][\A t \in TaskObjs :
            (FailStep(t) /\ pauseCalls[t] > 0) =>
                /\ PauseCallStep(t)
                /\ tasks[TaskId(t)] # 0 => timers'[tasks[TaskId(t)]].status = "stopped"]_vars

\* T2 was auto-paused by its first failure and resumed: its timer runs, an
\* execution is in flight, and error_count is still at max_retries
C32_Witness ==
    /\ pauseCalls["T2"] = 1
    /\ autoPaused["T2"] = "no"
    /\ error_count["T2"] = max_retries("T2")
    /\ tasks[TaskId("T2")] # 0
    /\ RegisteredTimer(TaskId("T2")).status = "running"
    /\ inFlight["T2"] = 1

\* C33: the running set holds a job id exactly when at least one execution
\* of that job's handler is in flight.
C33_RunningIffInFlight ==
    \A id \in JobIds :
        id \in runningTasks <=> \E t \in TaskObjs : TaskId(t) = id /\ inFlight[t] > 0

\* C34: a failure of an execution of a definition that scheduleTask has
\* replaced affects only that definition: it changes the status of no timer
\* that belongs to another definition, the replacement's included.
C34_OldFailureLeavesReplacement ==
    [][\A t \in TaskObjs :
          FailStep(t) =>
              \A k \in DOMAIN timers :
                  timers[k].task # t => timers'[k].status = timers[k].status]_vars

\* caller c takes the step
TryStep(c) ==
    \/ tryNo'[c] # tryNo[c]
    \/ reqOut'[c] # reqOut[c]
    \/ callerPc'[c] # callerPc[c]

\* C35: every attempt of a fetch, retries included, begins with the rate-limit
\* check of the fetch's source, its request is issued only once that check has
\* returned and with the source's count incremented by exactly one, and a step
\* of a fetch on one source changes neither the count nor the window start of
\* any other source.
C35_AttemptsThroughLimiter ==
    [][\A c \in Callers :
          /\ tryNo'[c] > tryNo[c] =>
                /\ callerPc[c] = "idle" /\ callerPc'[c] \in {"sleeping", "inc"}
                /\ callerSrc'[c] = trySrc'[c]
                /\ ~reqOut'[c]
          /\ (reqOut'[c] /\ ~reqOut[c]) =>
                /\ callerPc[c] = "inc" /\ callerSrc[c] = trySrc[c]
                /\ requestCounts'[trySrc[c]] = requestCounts[trySrc[c]] + 1
          /\ TryStep(c) =>
                \A s \in Sources \ {trySrc[c], trySrc'[c]} :
                    /\ requestCounts'[s] = requestCounts[s]
                    /\ lastResets'[s] = lastResets[s]]_vars

\* the third attempt of a fetch on binance found the limit used up by the first
\* two, slept into the next window and was issued, after a fetch on coingecko
C35_Witness ==
    /\ tryNo["f1"] = 3 /\ reqOut["f1"] /\ trySrc["f1"] = "binance"
    /\ lastResets["binance"] >= requestWindow
    /\ requestCounts["binance"] = 1
    /\ requestCounts["coingecko"] = 1

\* run r's sendMessage for the alert at its position rejects
SendFailStep(r) == aPc[r] = "send" /\ aPc'[r] # "send" /\ notified' = notified

\* C36: triggerAlert is reached only from a sendMessage that resolved; when the
\* send fails the alert's row stays as it was, active and untriggered, no
\* triggerAlert is called, the run goes on to the next alert of the group (or to
\* the next group), and the alert is among those the next run loads.
C36_TriggerOnlyAfterSend ==
    [][\A r \in {"r1"} :
          /\ (aPc'[r] = "trigger" /\ aPc[r] # "trigger") =>
                /\ aPc[r] = "send"
                /\ notified'[symbolAlerts(r)[aIdx[r]]] = notified[symbolAlerts(r)[aIdx[r]]] + 1
          /\ triggerCount' # triggerCount => aPc[r] = "trigger"
          /\ SendFailStep(r) =>
                LET a == symbolAlerts(r)[aIdx[r]]
                IN /\ price_alerts' = price_alerts
                   /\ price_alerts'[a].is_active /\ ~price_alerts'[a].triggered
                   /\ triggerCount' = triggerCount
                   /\ \E i \in DOMAIN getActiveAlerts(price_alerts') :
                         getActiveAlerts(price_alerts')[i] = a
                   /\ IF aIdx[r] < Len(symbolAlerts(r))
                      THEN aPc'[r] = "eval" /\ aIdx'[r] = aIdx[r] + 1
                      ELSE aPc'[r] = "sleep"]_vars

\* the send for the first alert of a group of two failed (the alert matches, was
\* never notified and is untriggered) and the run is evaluating the second alert
C36_Witness ==
    /\ aPc["r1"] = "eval" /\ aIdx["r1"] = 2
    /\ LET a == symbolAlerts("r1")[1]
       IN /\ Matches(price_alerts[a], currentPrice["r1"])
          /\ notified[a] = 0
          /\ price_alerts[a].is_active /\ ~price_alerts[a].triggered

\* C37: the catch/finally of a failed execution of one job, its pauseTask
\* included, changes no other job's error_count, registry entry or timer, so a
\* timer of another job that was enabled stays enabled and goes on firing.
C37_FailureLeavesOtherJobs ==
    [][\A t \in TaskObjs :
          FailStep(t) =>
              /\ \A u \in TaskObjs :
                    TaskId(u) # TaskId(t) => error_count'[u] = error_count[u]
              /\ \A id \in JobIds \ {TaskId(t)} : tasks'[id] = tasks[id]
              /\ DOMAIN timers' = DOMAIN timers
              /\ \A k \in DOMAIN timers :
                    TaskId(timers[k].task) # TaskId(t) => timers'[k] = timers[k]]_vars

\* the cleanup job failed and was paused; the push job, which failed once
\* itself, is still registered and enabled, with an execution in flight
C37_Witness ==
    /\ autoPaused["T2"] = "paused" /\ error_count["T2"] = max_retries("T2")
    /\ tasks["cleanup_old_records"] # 0
    /\ RegisteredTimer("cleanup_old_records").status = "stopped"
    /\ tasks["trending_coins_hourly"] # 0
    /\ RegisteredTimer("trending_coins_hourly").status = "running"
    /\ error_count["T1"] = 1 /\ inFlight["T1"] = 1

\* the loop of pushPriceComparison leaves symbol i without a broadcast for it
LeavesUnsent(i) == cSym = i /\ cSym' # i /\ cSent[i] = 0

\* C38: when the comparison of a symbol is absent or an error is raised for it,
\* the loop goes on to compare the next symbol, after the last symbol the
\* handler returns, and no error leaves the handler (the execution is a success).
C38_SymbolFailureIsolated ==
    [][/\ \A i \in DOMAIN CompareSymbols :
            LeavesUnsent(i) =>
                IF i < Len(CompareSymbols)
                THEN cSym' = i + 1 /\ cPc' = "fetching"
                ELSE cSym' = 0 /\ cPc' = "idle"
       /\ cPc' # "failed"]_vars

\* an error was raised for the first symbol (left without skip or broadcast), the
\* second had no comparison, and the third was compared and broadcast
C38_Witness ==
    /\ cSym = 3 /\ cPc = "sleep"
    /\ cSent = <<0, 0, 1>>
    /\ cSkipped = {2}

\* C39: after stop() the registry is empty and no timer can fire, and the
\* executions that were in flight at stop() run to completion: when the process
\* has exited none of them is left unfinished.
C39_StopLetsInFlightFinish ==
    exited => /\ \A id \in JobIds : tasks[id] = 0
              /\ \A k \in DOMAIN timers : timers[k].status # "running"
              /\ InFlightTotal = 0

====
